---- MODULE Spec2Model ----
(***************************************************************************)
(* go-nuts: the sharded ConcurrentMap (concurrentmap source, package       *)
(* gonuts) as a state machine of goroutines calling its methods, its       *)
(* shard hash fnv32 as a byte-by-byte loop, the state log StatesMan with   *)
(* its notification channel, the CircuitBreaker, and the utilities         *)
(* EventEmitter, Memoize, Retry, ConcurrentMapReduce, GoInterval,          *)
(* RateLimiter, ConditionalExecution and PaginationInfo, and the two       *)
(* event-driven state machines (the flat one with hooks and timed          *)
(* transitions, and the one with regions), each with a specification of    *)
(* its own.                                                                *)
(*                                                                         *)
(* K is int and V is int: fmt.Sprintf("%v", key) is the decimal form of    *)
(* the key, the zero value of V is 0.  A 32-bit hash is kept as the pair   *)
(* <<high 16 bits, low 16 bits>> so that every product stays below 2^31.   *)
(***************************************************************************)
EXTENDS Integers, Sequences, FiniteSets, TLC

\* ---------------------------------------------------------------- bounds
NumThreads == 2          \* goroutines calling the map
MaxCalls == 2            \* method calls issued by the goroutines of SpecLocks and SpecKV
KvCalls == 3             \* method calls issued by the goroutines of SpecRoundTrip
SeqCalls == 4            \* method calls issued by the single goroutine of SpecSeq
LenCalls == 4            \* method calls issued in SpecLen (one Len, the others writes)
MaxShards == 2           \* largest shard count requested from NewConcurrentMap
MaxKeyLen == 3           \* longest key string hashed in SpecHash
LogCalls == 3            \* StatesMan calls issued by the goroutines of SpecLog
AddsCalls == 4           \* StatesMan calls issued by the goroutine of SpecLogAdds
LogSeqCalls == 3         \* StatesMan calls issued by the goroutine of SpecLogSeq
ChanCalls == 11          \* AddStateChange calls of SpecChan: one more than the channel holds
CbCalls == 5             \* Execute calls of SpecCB
MaxTime == 4             \* last reading of the clock in SpecCB
MaxThreshold == 2        \* largest failureThreshold, halfOpenSuccess and resetTimeout of SpecCB
EeCalls == 3             \* EventEmitter calls of SpecEE
MzCalls == 3             \* Call calls of SpecMZ
MzTime == 3              \* last reading of the clock in SpecMZ
MaxAttempts == 3         \* largest attempts of SpecRT
RtCalls == 2             \* Retry calls of SpecRT
MaxInput == 2            \* longest input slice of SpecMR
MaxProcs == 2            \* largest runtime.GOMAXPROCS(0) of SpecMR
MrCalls == 1             \* ConcurrentMapReduce calls of SpecMR
IvCalls == 3             \* calls of Interval, Start and Stop in SpecIV
MaxRate == 2             \* largest rate of SpecRL
MaxBucket == 2           \* largest bucketSize of SpecRL
RlCalls == 3             \* AllowN calls of SpecRL
RlTime == 3              \* last reading of the clock in SpecRL
MaxConds == 2            \* most conditions and most actions of a chain in SpecCE
MaxItems == 6            \* largest totalItems of SpecPG
MaxShown == 4            \* largest max of PageNumbers in SpecPG
ClearCalls == 3          \* method calls issued in SpecClear
LiveCalls == 11           \* AddStateChange calls of SpecLive: one more than the channel holds
MaxTransitions == 2      \* transitions added to the state machine (SpecFSM, SpecHooks)
MaxTimed == 1            \* timed transitions added in SpecHooks
MaxHooks == 2            \* pre-hooks, and post-hooks, added in SpecHooks
FsmCalls == 2            \* events triggered in SpecFSM and in SpecHooks
MaxFired == 1            \* timer callbacks of SpecHooks beyond the events
RegionTransitionsMax == 2   \* transitions added to the state machine of SpecRegion
RegionCalls == 2         \* events triggered in SpecRegion
BlockedCalls == 2        \* calls of goroutine 2 in SpecBlocked
MaxImports == 1          \* Import calls on a state machine (SpecFSM, SpecHooks, SpecRegion)

\* ------------------------------------------------------ program constants
DefaultShards == 32      \* NewConcurrentMap: numShards = 32
OffsetHi == 33052        \* uint32(2166136261) = 33052 * 2^16 + 40389
OffsetLo == 40389
PrimeHi == 256           \* uint32(16777619) = 256 * 2^16 + 403
PrimeLo == 403
Half == 65536            \* 2^16: a uint32 is hi * Half + lo
ChanCap == 10            \* NewStatesMan: make(chan StatesManStateChange, 10)
StateClosed == 0         \* CircuitBreakerState: iota
StateOpen == 1
StateHalfOpen == 2
EventCap == 10           \* NewStatesMan (state machine): make(chan EventData, 10)
RegionEventCap == 10     \* NewStatesMan (variant with regions): make(chan EventID, 10)
AnyState == "*"          \* const AnyState StateID = "*"

\* ------------------------------------------------------------ input sets
Threads == 1..NumThreads
Keys == {-1, 2, 10}      \* values of K
Values == {0, 7}         \* values of V (0 is V's zero value)
ZeroValue == 0
Bytes == {45, 48, 49, 50}   \* "-", "0", "1", "2": the alphabet of SpecHash's key strings
ShardRequests == {-1, 0} \cup (1..MaxShards)   \* arguments of NewConcurrentMap

\* ================================================================= fnv32
RECURSIVE Xor(_, _)
\* a ^ b on non-negative integers
Xor(a, b) == IF a = 0 /\ b = 0 THEN 0
             ELSE (((a % 2) + (b % 2)) % 2) + 2 * Xor(a \div 2, b \div 2)

\* hash *= prime32 (uint32 arithmetic, wrapping modulo 2^32)
MulPrime(h) == <<((h[1] * PrimeLo) + (h[2] * PrimeHi) + ((h[2] * PrimeLo) \div Half)) % Half,
                 (h[2] * PrimeLo) % Half>>

\* hash ^= uint32(key[i])
XorByte(h, b) == <<h[1], Xor(h[2], b)>>

\* one iteration of fnv32's loop: multiply, then xor
fnvRound(h, b) == XorByte(MulPrime(h), b)

RECURSIVE fnvFrom(_, _, _)
fnvFrom(h, key, i) == IF i > Len(key) THEN h
                      ELSE fnvFrom(fnvRound(h, key[i]), key, i + 1)

fnv32(key) == fnvFrom(<<OffsetHi, OffsetLo>>, key, 1)

\* hash % uint32(n)
Mod32(h, n) == ((h[1] % n) * (Half % n) + (h[2] % n)) % n

\* ======================================================= fmt.Sprintf("%v")
RECURSIVE Digits(_)
Digits(n) == IF n < 10 THEN <<48 + n>> ELSE Digits(n \div 10) \o <<48 + (n % 10)>>

\* the decimal form of an int key, a sequence of bytes
SprintfV(key) == IF key < 0 THEN <<45>> \o Digits(0 - key) ELSE Digits(key)

\* ================================================================= state
VARIABLES
  requested,   \* the argument NewConcurrentMap was called with
  numShards,   \* cm.numShards
  items,       \* items[i]: the map shard i holds (cm.shards[i].items), a function on its keys
  wmu,         \* wmu[i]: the goroutine that called shards[i].mu.Lock() and has not unlocked (0: none)
  readers,     \* readers[i]: the goroutines holding shards[i].mu for reading
  pc,          \* pc[t]: where goroutine t is in its current call
  op,          \* op[t]: the call t is in or has last returned from: [name, key, val]
  idx,         \* idx[t]: the shard t works on (getShard's result, or the loop index)
  count,       \* count[t]: Len's local count
  buf,         \* buf[t]: Keys' keys, Values' values, or the <<k, v, f(k, v)>> of Range's calls of f
  todo,        \* todo[t]: keys of the current shard Range's inner loop has yet to visit
  ret,         \* ret[t]: what t's last call returned: [val, ok]
  calls,       \* method calls issued so far
  pinned,      \* history: pinned[k] = <<v>> once Set(k, v) took effect, <<>> after Delete(k)/Clear;
               \* in SpecRoundTrip also pinned[0] = <<k>>, k the key of the last Set or
               \* Delete that took effect
  seen,        \* history: seen[t]: the sizes the whole map had since t's Len was invoked
  hIn, hPos, hAcc   \* fnv32's key, loop index i and hash

mapVars == <<requested, numShards, items, wmu, readers, pc, op, idx, count, buf, todo,
             ret, calls, pinned, seen>>
hashVars == <<hIn, hPos, hAcc>>

\* ---- the state log (StatesMan) and the goroutines calling it
VARIABLES
  LoggedStates,        \* s.LoggedStates: the records appended, oldest first
  CurrentStates,       \* s.CurrentStates: a function on the subsystems that have an entry
  SafetyLock,          \* the goroutine holding s.SafetyLock (0: none)
  StateChangeChannel,  \* the records buffered in s.StateChangeChannel, oldest first
  received,            \* history: the records a consumer received from the channel, in order
  submitted,           \* history: the records AddStateChange was called with, in call order
  smPc,                \* smPc[t]: where goroutine t is in its current StatesMan call
  smOp,                \* smOp[t]: the call t is in or has last returned from
  smRet,               \* smRet[t]: what t's last call returned: [of, val]
  smCalls              \* StatesMan calls issued so far

logVars == <<LoggedStates, CurrentStates, SafetyLock, StateChangeChannel, received,
             submitted, smPc, smOp, smRet, smCalls>>

\* ---- the circuit breaker
VARIABLES
  failureThreshold, resetTimeout, halfOpenSuccess,   \* cb's configuration
  failures, successes, state, lastError, expiry,     \* cb's fields
  now,                 \* the clock time.Now() reads
  cbOp,                \* the last Execute: [ran, during, err]: f was called, in which state, its outcome
  cbRet,               \* what the last Execute returned
  cbCalls,             \* Execute calls so far
  openedAt,            \* history: the time of the Execute that last opened the breaker
  streak,              \* history: failed Executes in a row since the breaker was closed
                       \* with cb.failures = 0 (-1: it has not been since)
  sinceHalfOpen        \* history: successful Executes since the breaker became half-open

cbVars == <<failureThreshold, resetTimeout, halfOpenSuccess, failures, successes, state,
            lastError, expiry, now, cbOp, cbRet, cbCalls, openedAt, streak, sinceHalfOpen>>

\* ---- the smaller utilities: each one's state is one record
VARIABLES
  emitter,    \* the EventEmitter, the goroutine calling it and the goroutines it starts
  memo,    \* a MemoizedFunc and the goroutines calling it
  retry,    \* a call of Retry
  mapred,    \* a call of ConcurrentMapReduce
  ival,    \* a GoInterval , its tickers and its goroutines
  limiter,    \* a RateLimiter
  cond,    \* a ConditionalExecution chain
  pager,    \* a PaginationInfo
  machine,    \* the state machine StatesMan (flat variant), its Run loop and its timers
  regional     \* the state machine StatesMan (variant with regions) and its Run loop

utilVars == <<emitter, memo, retry, mapred, ival, limiter, cond, pager, machine, regional>>
oldVars == <<mapVars, hashVars, logVars, cbVars, machine, regional>>

restVars == <<hashVars, logVars, cbVars, utilVars>>
vars == <<mapVars, hashVars, logVars, cbVars, utilVars>>

\* ---- the utilities before their first call
\* NewEventEmitter, and main not in a call
NewEventEmitter ==
  [listeners |-> <<>>, readers |-> {}, pc |-> "idle", op |-> [name |-> "none"],
   ret |-> "none", calls |-> 0, visited |-> {}, snapshot |-> <<>>, gos |-> <<>>,
   invoked |-> <<>>, onceIds |-> {}, nextId |-> 0]
EeIdle == emitter = NewEventEmitter

\* Memoize(f, ttl): empty cache, no goroutine in Call; the clock reads 1
Memoize(ttl) ==
  [cache |-> <<>>, ttl |-> ttl, writer |-> 0, now |-> 1, calls |-> 0, invs |-> <<>>,
   th |-> [t \in Threads |-> [pc |-> "idle", args |-> <<>>, found |-> FALSE,
                              entry |-> <<>>, ret |-> <<>>]]]
MzIdle == memo = Memoize(0)

\* no Retry call in progress; err is Retry's local `var err error`
NoRetry ==
  [pc |-> "idle", attempts |-> 0, i |-> 0, err |-> "nil", ret |-> "none",
   cancelled |-> FALSE, invoked |-> 0, nils |-> 0, observed |-> FALSE, calls |-> 0]
RtIdle == retry = NoRetry

\* no ConcurrentMapReduce call in progress
NoMapReduce ==
  [pc |-> "idle", calls |-> 0, input |-> <<>>, init |-> 0, op |-> "sum", procs |-> 1,
   cancelled |-> FALSE, mapped |-> <<>>, j |-> <<>>, local |-> <<>>, state |-> <<>>,
   inter |-> <<>>, errs |-> 0, ret |-> <<>>]
MrIdle == mapred = NoMapReduce

\* the GoInterval struct before Interval's iv.Start: no ticker, no goroutine.
\* tickers are the tickers made by Start, the last one being iv.ticker, each with
\* the tick buffered in its channel; main is the position of the goroutine calling
\* Start and Stop; gos are the goroutines started by Start, each with its position
\* and, while it is in its select, the ticker whose channel the select waits on.
NoInterval ==
  [active |-> FALSE, callHasCancelled |-> FALSE, tickers |-> <<>>, main |-> "idle",
   runImmediately |-> FALSE, gos |-> <<>>, calls |-> 0, falsed |-> FALSE,
   again |-> FALSE]
IvIdle == ival = NoInterval

\* NewRateLimiter(rate, bucketSize) at clock reading at: a full bucket.  Token
\* amounts, rate (tokens per second) and the clock (seconds) are whole numbers,
\* which float64 represents exactly.
NewRateLimiter(rate, bucketSize, at) ==
  [rate |-> rate, bucketSize |-> bucketSize, tokens |-> bucketSize, lastRefill |-> at,
   now |-> at, calls |-> 0, n |-> 0, ret |-> FALSE]
RlIdle == limiter = NewRateLimiter(0, 0, 0)

\* the Else action, and a nil elseAction; the i-th action added by Then is i
CeElseAction == 0
CeNoAction == 0 - 1

\* NewConditionalExecution(): no condition, no action, elseAction nil.  A condition
\* is the boolean it returns; ran lists the actions run by the execution mode of
\* the chain as it is, if it was executed since it was last extended.
NewConditionalExecution ==
  [conditions |-> <<>>, actions |-> <<>>, elseAction |-> CeNoAction, ran |-> <<>>,
   mode |-> "none"]
CeIdle == cond = NewConditionalExecution

\* no PaginationInfo built yet; max and pages are the argument and the result of
\* the last PageNumbers call on info
NoPaginationInfo == [info |-> <<>>, max |-> 0, pages |-> <<>>, panicked |-> FALSE]
PgIdle == pager = NoPaginationInfo

\* NewStatesMan(name) of the flat variant: no state, no transition, no hook, an empty
\* EventChannel and an empty Context; taken is the event Run holds, fired the timer
\* callbacks waiting for the lock, sent and handled are the history, imported the
\* texts that Import has accepted, importErr whether the last Import returned an
\* error, panicked whether a goroutine has panicked (which ends the program).
\* nilStates tells the nil map from the empty map that make returns: both read as
\* a map without keys, a write to the nil map panics.
NewStateMachine ==
  [States |-> <<>>, nilStates |-> FALSE, Transitions |-> <<>>, TimedTransitions |-> <<>>, CurrentState |-> "",
   EventChannel |-> <<>>, Context |-> <<>>, PreHooks |-> <<>>, PostHooks |-> <<>>,
   taken |-> <<>>, fired |-> <<>>, ran |-> <<>>, sent |-> <<>>, handled |-> <<>>,
   imported |-> <<>>, importErr |-> FALSE, panicked |-> FALSE]
FsmIdle == machine = NewStateMachine

\* NewStatesMan(name) of the variant with regions: Regions is the one region "main"
NewRegionMachine ==
  [States |-> <<>>, nilStates |-> FALSE, Transitions |-> <<>>,
   Regions |-> <<[ID |-> "main", InitialState |-> "", CurrentState |-> ""]>>,
   EventChannel |-> <<>>, taken |-> <<>>, copies |-> <<>>, sent |-> 0, handled |-> <<>>,
   got |-> <<>>, imported |-> <<>>, importErr |-> FALSE, panicked |-> FALSE]
RsmIdle == regional = NewRegionMachine

UtilIdle ==
  /\ EeIdle /\ MzIdle /\ RtIdle /\ MrIdle /\ IvIdle /\ RlIdle /\ CeIdle /\ PgIdle
  /\ FsmIdle /\ RsmIdle

NoOp == [name |-> "none", key |-> 0, val |-> 0]
NoRet == [val |-> 0, ok |-> FALSE]
Shards == 0..(numShards - 1)
KeyOps == {"Set", "Get", "Delete", "GetOrSet", "SetIfAbsent"}
WriteOps == {"Set", "Delete", "GetOrSet", "SetIfAbsent", "Clear"}
ScanOps == {"Len", "Clear", "Keys", "Values", "Range"}

\* a Go map as a function on the keys it holds
Put(m, k, v) == [x \in (DOMAIN m) \cup {k} |-> IF x = k THEN v ELSE m[x]]
\* mutant of Remove: delete empties the shard's map
RemoveAll(m, k) == <<>>
Remove(m, k) == [x \in (DOMAIN m) \ {k} |-> m[x]]
Has(m, k) == k \in DOMAIN m

RECURSIVE SumSizes(_, _)
SumSizes(its, i) == IF i < 0 THEN 0 ELSE Cardinality(DOMAIN its[i]) + SumSizes(its, i - 1)
\* the number of entries of the whole map
Total(its) == SumSizes(its, numShards - 1)

\* every order in which a range loop may visit the keys of S
RECURSIVE Orders(_)
Orders(S) == IF S = {} THEN {<<>>}
             ELSE UNION {{<<k>> \o o : o \in Orders(S \ {k})} : k \in S}

\* if numShards <= 0 { numShards = 32 }
NormShards(n) == IF n <= 0 THEN DefaultShards ELSE n

\* NewConcurrentMap(n): n empty shards, no lock held
NewConcurrentMap(n) ==
  /\ requested = n
  /\ numShards = NormShards(n)
  /\ items = [i \in 0..(NormShards(n) - 1) |-> <<>>]
  /\ wmu = [i \in 0..(NormShards(n) - 1) |-> 0]
  /\ readers = [i \in 0..(NormShards(n) - 1) |-> {}]

\* no call in progress, none made; pinned is kept for the keys of ks
NoCalls(ks) ==
  /\ pc = [t \in Threads |-> "idle"]
  /\ op = [t \in Threads |-> NoOp]
  /\ idx = [t \in Threads |-> 0]
  /\ count = [t \in Threads |-> 0]
  /\ buf = [t \in Threads |-> <<>>]
  /\ todo = [t \in Threads |-> {}]
  /\ ret = [t \in Threads |-> NoRet]
  /\ calls = 0
  /\ pinned = [k \in ks |-> <<>>]
  /\ seen = [t \in Threads |-> {}]

ThreadsInit == NoCalls(Keys)

HashIdle == hIn = <<>> /\ hPos = 0 /\ hAcc = <<OffsetHi, OffsetLo>>

\* mutant of getShard: the key itself, not its hash, picks the shard
getShardNoHash(key) == (IF key < 0 THEN 0 - key ELSE key) % numShards

\* cm.getShard(key): the index of the shard
getShard(key) == Mod32(fnv32(SprintfV(key)), numShards)

\* ------------------------------------------------------------- history
\* the sizes the whole map has had while t's Len is between invocation and return
Observe(its) == [t \in Threads |->
                   IF op[t].name = "Len" /\ pc[t] # "idle"
                   THEN seen[t] \cup {Total(its)} ELSE seen[t]]

\* -------------------------------------------------------- sync.RWMutex
\* shard.mu.RLock(): blocks while a writer holds the mutex or waits for it
RLock(t) ==
  /\ pc[t] \in {"rlock", "caplock"}
  /\ wmu[idx[t]] = 0
  /\ readers' = [readers EXCEPT ![idx[t]] = @ \cup {t}]
  /\ pc' = [pc EXCEPT ![t] = IF @ = "rlock" THEN "rheld" ELSE "capheld"]
  /\ todo' = [todo EXCEPT ![t] = IF op[t].name = "Range" THEN DOMAIN items[idx[t]] ELSE @]
  /\ UNCHANGED <<requested, numShards, items, wmu, op, idx, count, buf, ret, calls,
                 pinned, seen, restVars>>

\* shard.mu.Lock(): the writer takes the mutex, or, while readers hold it, announces
\* itself (later RLocks block) and waits for them to leave
Lock(t) ==
  /\ pc[t] = "wlock"
  /\ wmu[idx[t]] = 0
  /\ wmu' = [wmu EXCEPT ![idx[t]] = t]
  /\ pc' = [pc EXCEPT ![t] = IF readers[idx[t]] = {} THEN "wheld" ELSE "wwait"]
  /\ UNCHANGED <<requested, numShards, items, readers, op, idx, count, buf, todo, ret,
                 calls, pinned, seen, restVars>>

\* shard.mu.Lock() of a waiting writer returns: the readers have left
LockGranted(t) ==
  /\ pc[t] = "wwait"
  /\ readers[idx[t]] = {}
  /\ pc' = [pc EXCEPT ![t] = "wheld"]
  /\ UNCHANGED <<requested, numShards, items, wmu, readers, op, idx, count, buf, todo,
                 ret, calls, pinned, seen, restVars>>

RUnlock(t) == readers' = [readers EXCEPT ![idx[t]] = @ \ {t}]
Unlock(t) == wmu' = [wmu EXCEPT ![idx[t]] = 0]

\* --------------------------------------------------------------- calls
\* goroutine t calls cm.<name>(k, v); a method on one key computes its shard first
Call(t, name, k, v) ==
  /\ pc[t] = "idle"
  /\ op' = [op EXCEPT ![t] = [name |-> name, key |-> k, val |-> v]]
  /\ idx' = [idx EXCEPT ![t] = IF name \in KeyOps THEN getShard(k) ELSE 0]
  /\ pc' = [pc EXCEPT ![t] = IF name \in WriteOps THEN "wlock"
                             ELSE IF name \in {"Keys", "Values"} THEN "caplock"
                             ELSE "rlock"]
  /\ count' = [count EXCEPT ![t] = 0]
  /\ buf' = [buf EXCEPT ![t] = <<>>]
  /\ todo' = [todo EXCEPT ![t] = {}]
  /\ ret' = [ret EXCEPT ![t] = NoRet]
  /\ calls' = calls + 1
  /\ seen' = [seen EXCEPT ![t] = IF name = "Len" THEN {Total(items)} ELSE {}]
  /\ UNCHANGED <<requested, numShards, items, wmu, readers, pinned, restVars>>

\* history: a Set or Delete of key has taken effect; p[0], where the
\* specification keeps it, is the key of the last one
LastWrite(p, key) == IF 0 \in DOMAIN p THEN [p EXCEPT ![0] = <<key>>] ELSE p

\* ---------------------------------------------------------------- Set
SetBody(t) ==
  /\ pc[t] = "wheld" /\ op[t].name = "Set"
  /\ items' = [items EXCEPT ![idx[t]] = Put(@, op[t].key, op[t].val)]
  /\ Unlock(t)
  /\ pc' = [pc EXCEPT ![t] = "idle"]
  /\ pinned' = LastWrite([pinned EXCEPT ![op[t].key] = <<op[t].val>>], op[t].key)
  /\ seen' = Observe(items')
  /\ UNCHANGED <<requested, numShards, readers, op, idx, count, buf, todo, ret, calls,
                 restVars>>

\* ---------------------------------------------------------------- Get
\* mutant of GetResult: the value found is dropped, V's zero value is returned
GetResultZero(m, k) == [val |-> ZeroValue, ok |-> Has(m, k)]

GetResult(m, k) == IF Has(m, k) THEN [val |-> m[k], ok |-> TRUE]
                   ELSE [val |-> ZeroValue, ok |-> FALSE]

GetBody(t) ==
  /\ pc[t] = "rheld" /\ op[t].name = "Get"
  /\ ret' = [ret EXCEPT ![t] = GetResult(items[idx[t]], op[t].key)]
  /\ RUnlock(t)
  /\ pc' = [pc EXCEPT ![t] = "idle"]
  /\ UNCHANGED <<requested, numShards, items, wmu, op, idx, count, buf, todo, calls,
                 pinned, seen, restVars>>

\* ------------------------------------------------------------- Delete
DeleteBody(t) ==
  /\ pc[t] = "wheld" /\ op[t].name = "Delete"
  /\ items' = [items EXCEPT ![idx[t]] = Remove(@, op[t].key)]
  /\ Unlock(t)
  /\ pc' = [pc EXCEPT ![t] = "idle"]
  /\ pinned' = LastWrite([pinned EXCEPT ![op[t].key] = <<>>], op[t].key)
  /\ seen' = Observe(items')
  /\ UNCHANGED <<requested, numShards, readers, op, idx, count, buf, todo, ret, calls,
                 restVars>>

\* ----------------------------------------------------------- GetOrSet
GetOrSetItems(m, k, v) == IF Has(m, k) THEN m ELSE Put(m, k, v)
\* mutant of GetOrSetResult: the caller's value is returned even when the key exists
GetOrSetResultOwn(m, k, v) == [val |-> v, ok |-> Has(m, k)]

GetOrSetResult(m, k, v) == IF Has(m, k) THEN [val |-> m[k], ok |-> TRUE]
                           ELSE [val |-> v, ok |-> FALSE]

GetOrSetBody(t) ==
  /\ pc[t] = "wheld" /\ op[t].name = "GetOrSet"
  /\ items' = [items EXCEPT ![idx[t]] = GetOrSetItems(@, op[t].key, op[t].val)]
  /\ ret' = [ret EXCEPT ![t] = GetOrSetResult(items[idx[t]], op[t].key, op[t].val)]
  /\ Unlock(t)
  /\ pc' = [pc EXCEPT ![t] = "idle"]
  /\ seen' = Observe(items')
  /\ UNCHANGED <<requested, numShards, readers, op, idx, count, buf, todo, calls,
                 pinned, restVars>>

\* -------------------------------------------------------- SetIfAbsent
\* mutant of SetIfAbsentItems: the value is stored whether or not the key exists
SetIfAbsentItemsAlways(m, k, v) == Put(m, k, v)

SetIfAbsentItems(m, k, v) == IF ~Has(m, k) THEN Put(m, k, v) ELSE m
SetIfAbsentResult(m, k) == [val |-> 0, ok |-> ~Has(m, k)]

SetIfAbsentBody(t) ==
  /\ pc[t] = "wheld" /\ op[t].name = "SetIfAbsent"
  /\ items' = [items EXCEPT ![idx[t]] = SetIfAbsentItems(@, op[t].key, op[t].val)]
  /\ ret' = [ret EXCEPT ![t] = SetIfAbsentResult(items[idx[t]], op[t].key)]
  /\ Unlock(t)
  /\ pc' = [pc EXCEPT ![t] = "idle"]
  /\ seen' = Observe(items')
  /\ UNCHANGED <<requested, numShards, readers, op, idx, count, buf, todo, calls,
                 pinned, restVars>>

\* ---------------------------------------------- for _, shard := range cm.shards
\* mutant of LastShard: the loop over the shards stops one shard early
LastShardEarly(t) == idx[t] + 2 >= numShards

LastShard(t) == idx[t] + 1 >= numShards
\* the loop goes on to the next shard (to pc `again`), or the method returns
NextShard(t, again) ==
  /\ idx' = [idx EXCEPT ![t] = IF LastShard(t) THEN @ ELSE @ + 1]
  /\ pc' = [pc EXCEPT ![t] = IF LastShard(t) THEN "idle" ELSE again]

\* ---------------------------------------------------------------- Len
\* mutant of LenAdd: count = len(shard.items)
LenAddAssign(c, m) == Cardinality(DOMAIN m)

\* count += len(shard.items)
LenAdd(c, m) == c + Cardinality(DOMAIN m)

LenShard(t) ==
  /\ pc[t] = "rheld" /\ op[t].name = "Len"
  /\ count' = [count EXCEPT ![t] = LenAdd(@, items[idx[t]])]
  /\ RUnlock(t)
  /\ NextShard(t, "rlock")
  /\ ret' = [ret EXCEPT ![t] = IF LastShard(t) THEN [val |-> count'[t], ok |-> FALSE] ELSE @]
  /\ UNCHANGED <<requested, numShards, items, wmu, op, buf, todo, calls, pinned, seen,
                 restVars>>

\* -------------------------------------------------------------- Clear
\* mutant of ClearItems: the shard keeps its map
ClearKeeps(m) == m
\* shard.items = make(map[K]V)
ClearItems(m) == <<>>

ClearShard(t) ==
  /\ pc[t] = "wheld" /\ op[t].name = "Clear"
  /\ items' = [items EXCEPT ![idx[t]] = ClearItems(@)]
  /\ Unlock(t)
  /\ NextShard(t, "wlock")
  /\ pinned' = [k \in DOMAIN pinned |-> IF Has(items[idx[t]], k) THEN <<>> ELSE pinned[k]]
  /\ seen' = Observe(items')
  /\ UNCHANGED <<requested, numShards, readers, op, count, buf, todo, ret, calls,
                 restVars>>

\* ------------------------------------------------------ Keys and Values
\* make([]K, 0, cm.Len()): the call of cm.Len() that sizes the slice
CapShard(t) ==
  /\ pc[t] = "capheld" /\ op[t].name \in {"Keys", "Values"}
  /\ count' = [count EXCEPT ![t] = LenAdd(@, items[idx[t]])]
  /\ RUnlock(t)
  /\ idx' = [idx EXCEPT ![t] = IF LastShard(t) THEN 0 ELSE @ + 1]
  /\ pc' = [pc EXCEPT ![t] = IF LastShard(t) THEN "rlock" ELSE "caplock"]
  /\ UNCHANGED <<requested, numShards, items, wmu, op, buf, todo, ret, calls, pinned,
                 seen, restVars>>

\* for key := range shard.items { keys = append(keys, key) }
KeysShard(t) ==
  /\ pc[t] = "rheld" /\ op[t].name = "Keys"
  /\ \E o \in Orders(DOMAIN items[idx[t]]) : buf' = [buf EXCEPT ![t] = @ \o o]
  /\ RUnlock(t)
  /\ NextShard(t, "rlock")
  /\ UNCHANGED <<requested, numShards, items, wmu, op, count, todo, ret, calls, pinned,
                 seen, restVars>>

\* for _, value := range shard.items { values = append(values, value) }
ValuesShard(t) ==
  /\ pc[t] = "rheld" /\ op[t].name = "Values"
  /\ \E o \in Orders(DOMAIN items[idx[t]]) :
       buf' = [buf EXCEPT ![t] = @ \o [j \in 1..Len(o) |-> items[idx[t]][o[j]]]]
  /\ RUnlock(t)
  /\ NextShard(t, "rlock")
  /\ UNCHANGED <<requested, numShards, items, wmu, op, count, todo, ret, calls, pinned,
                 seen, restVars>>

\* -------------------------------------------------------------- Range
\* mutant of RangeStop: return without shard.mu.RUnlock()
RangeStopNoUnlock(t) ==
  /\ readers' = readers
  /\ pc' = [pc EXCEPT ![t] = "idle"]
  /\ todo' = [todo EXCEPT ![t] = {}]
  /\ idx' = idx

\* mutant of RangeStop: break instead of return, the outer loop goes on
RangeStopBreak(t) ==
  /\ RUnlock(t)
  /\ NextShard(t, "rlock")
  /\ todo' = [todo EXCEPT ![t] = {}]

\* if !f(k, v) { shard.mu.RUnlock(); return }
RangeStop(t) ==
  /\ RUnlock(t)
  /\ pc' = [pc EXCEPT ![t] = "idle"]
  /\ todo' = [todo EXCEPT ![t] = {}]
  /\ idx' = idx

\* f(k, v) returned true: the inner loop goes on
RangeGoOn(t, k) ==
  /\ todo' = [todo EXCEPT ![t] = @ \ {k}]
  /\ UNCHANGED <<readers, pc, idx>>

\* one iteration of for k, v := range shard.items: f is called and answers b
RangeCall(t) ==
  /\ pc[t] = "rheld" /\ op[t].name = "Range"
  /\ \E k \in todo[t], b \in BOOLEAN :
       /\ buf' = [buf EXCEPT ![t] = Append(@, <<k, items[idx[t]][k], b>>)]
       /\ IF b THEN RangeGoOn(t, k) ELSE RangeStop(t)
  /\ UNCHANGED <<requested, numShards, items, wmu, op, count, ret, calls, pinned, seen,
                 restVars>>

\* the inner loop is over: shard.mu.RUnlock(), next shard
RangeShardDone(t) ==
  /\ pc[t] = "rheld" /\ op[t].name = "Range"
  /\ todo[t] = {}
  /\ RUnlock(t)
  /\ NextShard(t, "rlock")
  /\ UNCHANGED <<requested, numShards, items, wmu, op, count, buf, todo, ret, calls,
                 pinned, seen, restVars>>

\* ================================================== fnv32, step by step
\* for i := 0; i < len(key); i++ { hash *= prime32; hash ^= uint32(key[i]) }
FnvStep ==
  /\ hPos < Len(hIn)
  /\ hAcc' = fnvRound(hAcc, hIn[hPos + 1])
  /\ hPos' = hPos + 1
  /\ UNCHANGED <<hIn, mapVars, logVars, cbVars, utilVars>>

RECURSIVE Strings(_)
\* the byte strings of length n over Bytes
Strings(n) == IF n = 0 THEN {<<>>}
              ELSE {Append(w, b) : w \in Strings(n - 1), b \in Bytes}
KeyStrings == UNION {Strings(n) : n \in 0..MaxKeyLen}

\* ======================================================= specifications
\* a goroutine calls a method on a key
CallKeyOp(t) ==
  \E name \in KeyOps, k \in Keys, v \in Values :
    /\ name \in {"Get", "Delete"} => v = ZeroValue
    /\ Call(t, name, k, v)

\* a goroutine calls a method on the whole map
CallScanOp(t) == \E name \in ScanOps : Call(t, name, 0, 0)

CallClear(t) == Call(t, "Clear", 0, 0)
CallLen(t) == Call(t, "Len", 0, 0)
CallWrite(t) == \E name \in {"Set", "Delete"}, k \in Keys : Call(t, name, k, ZeroValue)
CallSetIfAbsent(t) == \E k \in Keys, v \in Values : Call(t, "SetIfAbsent", k, v)
CallGetOrSet(t) == \E k \in Keys, v \in Values : Call(t, "GetOrSet", k, v)

LockSteps(t) == RLock(t) \/ Lock(t) \/ LockGranted(t)

\* a goroutine calls a method on a key; the value is of no interest
CallKeyOpOneValue(t) ==
  \E name \in KeyOps, k \in Keys :
    Call(t, name, k, IF name \in {"Get", "Delete"} THEN ZeroValue ELSE 7)

\* ======================================================== CircuitBreaker
\* time.Time and time.Duration are integers (ticks of the clock); Execute holds
\* cb.mu from its first line to its return, f included, so a call is one step.
NoError == "nil"
ErrCircuitOpen == "circuit breaker is open"
\* what f does: return nil, return an error, or panic
Outcomes == {NoError, "e1", "e2", "panic"}
NoExecute == [ran |-> FALSE, during |-> StateClosed, err |-> NoError]

\* NewCircuitBreaker(ft, rt, hs); the zero time.Time is 0, the clock starts after it
NewCircuitBreaker(ft, rt, hs) ==
  /\ failureThreshold = ft /\ resetTimeout = rt /\ halfOpenSuccess = hs
  /\ state = StateClosed
  /\ failures = 0 /\ successes = 0 /\ lastError = NoError /\ expiry = 0
  /\ now = 1
  /\ cbOp = NoExecute /\ cbRet = NoError /\ cbCalls = 0
  /\ openedAt = 0 /\ streak = 0 /\ sinceHalfOpen = 0

CbIdle == NewCircuitBreaker(1, 1, 1)

\* mutant of After: a is b or later
NotBefore(a, b) == a >= b

\* now.After(cb.expiry)
After(a, b) == a > b

\* mutant of Tripped: more failures than the threshold
TrippedAbove(n, threshold) == n > threshold

\* cb.failures >= cb.failureThreshold
Tripped(n, threshold) == n >= threshold

\* cb.successes >= cb.halfOpenSuccess
Recovered(n, threshold) == n >= threshold

\* cb.Execute(f) where f ends with outcome
Execute(outcome) ==
  /\ cbCalls < CbCalls
  /\ cbCalls' = cbCalls + 1
  /\ LET expired == state = StateOpen /\ After(now, expiry)
         \* after the if cb.state == StateOpen block
         st == IF expired THEN StateHalfOpen ELSE state
         fl == IF expired THEN 0 ELSE failures
         sc == IF expired THEN 0 ELSE successes
         since == IF expired THEN 0 ELSE sinceHalfOpen
     IN IF state = StateOpen /\ ~After(now, expiry)
          THEN /\ cbRet' = ErrCircuitOpen
               /\ cbOp' = [ran |-> FALSE, during |-> state, err |-> NoError]
               /\ UNCHANGED <<failures, successes, state, lastError, expiry, openedAt,
                              streak, sinceHalfOpen>>
          ELSE
            /\ cbOp' = [ran |-> TRUE, during |-> st, err |-> outcome]
            /\ cbRet' = outcome
            /\ IF outcome = "panic"
                 THEN /\ state' = st /\ failures' = fl /\ successes' = sc
                      /\ sinceHalfOpen' = since
                      /\ UNCHANGED <<lastError, expiry, openedAt, streak>>
                 ELSE IF outcome # NoError
                   THEN /\ failures' = fl + 1
                        /\ lastError' = outcome
                        /\ successes' = sc
                        /\ sinceHalfOpen' = since
                        /\ IF Tripped(fl + 1, failureThreshold)
                             THEN /\ state' = StateOpen
                                  /\ expiry' = now + resetTimeout
                                  /\ openedAt' = now
                                  /\ streak' = -1
                             ELSE /\ state' = st
                                  /\ streak' = IF st = StateClosed /\ streak >= 0
                                                 THEN streak + 1 ELSE -1
                                  /\ UNCHANGED <<expiry, openedAt>>
                   ELSE /\ sinceHalfOpen' = IF st = StateHalfOpen THEN since + 1 ELSE since
                        /\ IF st = StateHalfOpen
                             THEN /\ successes' = sc + 1
                                  /\ failures' = fl
                                  /\ state' = IF Recovered(sc + 1, halfOpenSuccess)
                                                THEN StateClosed ELSE st
                                  /\ streak' = IF Recovered(sc + 1, halfOpenSuccess) /\ fl = 0
                                                 THEN 0 ELSE -1
                             ELSE /\ failures' = 0
                                  /\ successes' = sc
                                  /\ state' = st
                                  /\ streak' = 0
                        /\ UNCHANGED <<lastError, expiry, openedAt>>
  /\ UNCHANGED <<failureThreshold, resetTimeout, halfOpenSuccess, now, mapVars, hashVars,
                 logVars, utilVars>>

\* the clock advances
Tick ==
  /\ now < MaxTime
  /\ now' = now + 1
  /\ UNCHANGED <<failureThreshold, resetTimeout, halfOpenSuccess, failures, successes,
                 state, lastError, expiry, cbOp, cbRet, cbCalls, openedAt, streak,
                 sinceHalfOpen, mapVars, hashVars, logVars,
                 utilVars>>

\* ============================================================= StatesMan
\* the eight tokens NewStatesMan puts in s.AvailableStates
AvailableStates == {"created", "started", "stopped", "paused", "resumed", "completed",
                    "failed", "terminated"}
StateStringEmpty == ""

\* a *T argument: {} is nil, {x} points to x
Nil == {}
Opt(S) == {Nil} \cup {{x} : x \in S}

\* a StatesManStateChange (Data is carried along and never read)
StateChange(systemName, fromState, toState, timestamp) ==
  [SystemName |-> systemName, FromState |-> fromState, ToState |-> toState,
   Timestamp |-> timestamp]

NoSmOp == [name |-> "none"]
NoSmRet == [of |-> "none"]

\* NewStatesMan: empty log, empty table, empty channel, lock free
NewStatesMan ==
  /\ LoggedStates = <<>>
  /\ CurrentStates = <<>>
  /\ SafetyLock = 0
  /\ StateChangeChannel = <<>>
  /\ received = <<>>
  /\ submitted = <<>>

SmThreadsInit ==
  /\ smPc = [t \in Threads |-> "idle"]
  /\ smOp = [t \in Threads |-> NoSmOp]
  /\ smRet = [t \in Threads |-> NoSmRet]
  /\ smCalls = 0

LogIdle == NewStatesMan /\ SmThreadsInit

\* s.CurrentStates[systemName] = toState
SetCurrent(cur, systemName, toState) ==
  [n \in DOMAIN cur \cup {systemName} |-> IF n = systemName THEN toState ELSE cur[n]]

\* s.CurrentStates[systemName]: the zero value "" when there is no entry
GetState(systemName) ==
  IF systemName \in DOMAIN CurrentStates THEN CurrentStates[systemName]
  ELSE StateStringEmpty

\* mutant of GetStateChangesForSystem: every record, whatever its subsystem
GetStateChangesForSystemAll(log, systemName) == log

\* the records of log whose SystemName is systemName, in log order
GetStateChangesForSystem(log, systemName) ==
  SelectSeq(log, LAMBDA change : change.SystemName = systemName)

\* mutant of FilterKeeps: a record stamped exactly since is skipped
FilterKeepsAfterSince(change, systemName, fromState, toState, since, until) ==
  /\ ~(systemName # Nil /\ \E n \in systemName : change.SystemName # n)
  /\ ~(fromState # Nil /\ \E f \in fromState : change.FromState # f)
  /\ ~(toState # Nil /\ \E s \in toState : change.ToState # s)
  /\ ~(since # Nil /\ \E ts \in since : change.Timestamp <= ts)
  /\ ~(until # Nil /\ \E ts \in until : change.Timestamp > ts)

\* the loop body of GetFilteredStateChanges: no continue is taken for change
FilterKeeps(change, systemName, fromState, toState, since, until) ==
  /\ ~(systemName # Nil /\ \E n \in systemName : change.SystemName # n)
  /\ ~(fromState # Nil /\ \E f \in fromState : change.FromState # f)
  /\ ~(toState # Nil /\ \E s \in toState : change.ToState # s)
  /\ ~(since # Nil /\ \E ts \in since : change.Timestamp < ts)
  /\ ~(until # Nil /\ \E ts \in until : change.Timestamp > ts)

GetFilteredStateChanges(log, systemName, fromState, toState, since, until) ==
  SelectSeq(log, LAMBDA change :
                   FilterKeeps(change, systemName, fromState, toState, since, until))

\* the loop body of PruneStateChanges: no continue is taken for change
PruneKeeps(change, systemName, since, until) ==
  /\ ~(systemName # Nil /\ \E n \in systemName : change.SystemName # n)
  /\ ~(since # Nil /\ \E ts \in since : change.Timestamp < ts)
  /\ ~(until # Nil /\ \E ts \in until : change.Timestamp > ts)

\* mutant of PruneStateChanges: the records its loop kept, newest first
PruneStateChangesNewestFirst(log, systemName, since, until) ==
  LET kept == SelectSeq(log, LAMBDA change : PruneKeeps(change, systemName, since, until))
  IN [i \in 1..Len(kept) |-> kept[Len(kept) + 1 - i]]

\* what PruneStateChanges assigns to s.LoggedStates: the records its loop appended
PruneStateChanges(log, systemName, since, until) ==
  SelectSeq(log, LAMBDA change : PruneKeeps(change, systemName, since, until))

\* mutant of CheckState: the empty token is recognized too
CheckStateOrEmpty(st) == st \in AvailableStates \cup {StateStringEmpty}

\* the loop of CheckState over s.AvailableStates
CheckState(st) == st \in AvailableStates

\* ---- a goroutine's steps
\* t calls a method that starts with s.SafetyLock.Lock(); max bounds the calls
SmCall(t, o, max) ==
  /\ smPc[t] = "idle"
  /\ smCalls < max
  /\ smCalls' = smCalls + 1
  /\ smOp' = [smOp EXCEPT ![t] = o]
  /\ smRet' = [smRet EXCEPT ![t] = NoSmRet]
  /\ smPc' = [smPc EXCEPT ![t] = "lock"]
  /\ submitted' = IF o.name = "AddStateChange" THEN Append(submitted, o.change)
                  ELSE submitted
  /\ UNCHANGED <<LoggedStates, CurrentStates, SafetyLock, StateChangeChannel, received,
                 mapVars, hashVars, cbVars, utilVars>>

\* t calls CheckStates(states): with no entry the loop is not entered
CheckStatesCall(t, states, max) ==
  /\ smPc[t] = "idle"
  /\ smCalls < max
  /\ smCalls' = smCalls + 1
  /\ smOp' = [smOp EXCEPT ![t] = [name |-> "CheckStates", states |-> states,
                                  left |-> DOMAIN states]]
  /\ IF DOMAIN states = {}
       THEN /\ smRet' = [smRet EXCEPT ![t] = [of |-> "CheckStates", val |-> TRUE]]
            /\ UNCHANGED smPc
       ELSE /\ smRet' = [smRet EXCEPT ![t] = NoSmRet]
            /\ smPc' = [smPc EXCEPT ![t] = "lock"]
  /\ UNCHANGED <<LoggedStates, CurrentStates, SafetyLock, StateChangeChannel, received,
                 submitted, mapVars, hashVars, cbVars, utilVars>>

\* s.SafetyLock.Lock() returns
SmLock(t) ==
  /\ smPc[t] = "lock"
  /\ SafetyLock = 0
  /\ SafetyLock' = t
  /\ smPc' = [smPc EXCEPT ![t] = "held"]
  /\ UNCHANGED <<LoggedStates, CurrentStates, StateChangeChannel, received, submitted,
                 smOp, smRet, smCalls, mapVars, hashVars, cbVars, utilVars>>

\* t leaves its critical section and returns val
SmReturn(t, val) ==
  /\ SafetyLock' = 0
  /\ smPc' = [smPc EXCEPT ![t] = "idle"]
  /\ smRet' = [smRet EXCEPT ![t] = [of |-> smOp[t].name, val |-> val]]

\* mutant of AddStateChangeBody: the send is part of the critical section, so the
\* lock is given back at once only when the channel has room for the record
AddStateChangeBodySendInside(t) ==
  /\ smPc[t] = "held" /\ smOp[t].name = "AddStateChange"
  /\ LoggedStates' = Append(LoggedStates, smOp[t].change)
  /\ CurrentStates' = SetCurrent(CurrentStates, smOp[t].change.SystemName,
                                 smOp[t].change.ToState)
  /\ SafetyLock' = IF Len(StateChangeChannel) < ChanCap THEN 0 ELSE SafetyLock
  /\ smPc' = [smPc EXCEPT ![t] = "send"]
  /\ UNCHANGED <<StateChangeChannel, received, submitted, smOp, smRet, smCalls,
                 mapVars, hashVars, cbVars, utilVars>>

\* mutant of AddStateChangeBody: the lock is still held during the send and after
AddStateChangeBodyNoUnlock(t) ==
  /\ smPc[t] = "held" /\ smOp[t].name = "AddStateChange"
  /\ LoggedStates' = Append(LoggedStates, smOp[t].change)
  /\ CurrentStates' = SetCurrent(CurrentStates, smOp[t].change.SystemName,
                                 smOp[t].change.ToState)
  /\ smPc' = [smPc EXCEPT ![t] = "send"]
  /\ UNCHANGED <<SafetyLock, StateChangeChannel, received, submitted, smOp, smRet,
                 smCalls, mapVars, hashVars, cbVars, utilVars>>

\* mutant of AddStateChangeBody: an existing entry of the table is kept
AddStateChangeBodyKeepsEntry(t) ==
  /\ smPc[t] = "held" /\ smOp[t].name = "AddStateChange"
  /\ LoggedStates' = Append(LoggedStates, smOp[t].change)
  /\ CurrentStates' = IF smOp[t].change.SystemName \in DOMAIN CurrentStates
                        THEN CurrentStates
                        ELSE SetCurrent(CurrentStates, smOp[t].change.SystemName,
                                        smOp[t].change.ToState)
  /\ SafetyLock' = 0
  /\ smPc' = [smPc EXCEPT ![t] = "send"]
  /\ UNCHANGED <<StateChangeChannel, received, submitted, smOp, smRet, smCalls,
                 mapVars, hashVars, cbVars, utilVars>>

\* AddStateChange between Lock and Unlock: append to the log, set the table entry
AddStateChangeBody(t) ==
  /\ smPc[t] = "held" /\ smOp[t].name = "AddStateChange"
  /\ LoggedStates' = Append(LoggedStates, smOp[t].change)
  /\ CurrentStates' = SetCurrent(CurrentStates, smOp[t].change.SystemName,
                                 smOp[t].change.ToState)
  /\ SafetyLock' = 0
  /\ smPc' = [smPc EXCEPT ![t] = "send"]
  /\ UNCHANGED <<StateChangeChannel, received, submitted, smOp, smRet, smCalls,
                 mapVars, hashVars, cbVars, utilVars>>

\* mutant of AddStateChangeSend: a full channel drops the record instead of blocking
AddStateChangeSendOrDrop(t) ==
  /\ smPc[t] = "send"
  /\ StateChangeChannel' = IF Len(StateChangeChannel) < ChanCap
                              THEN Append(StateChangeChannel, smOp[t].change)
                              ELSE StateChangeChannel
  /\ smPc' = [smPc EXCEPT ![t] = "idle"]
  /\ smRet' = [smRet EXCEPT ![t] = [of |-> "AddStateChange", val |-> TRUE]]
  /\ UNCHANGED <<LoggedStates, CurrentStates, SafetyLock, received, submitted, smOp,
                 smCalls, mapVars, hashVars, cbVars, utilVars>>

\* s.StateChangeChannel <- stateChange: blocks while the buffer holds ChanCap records
AddStateChangeSend(t) ==
  /\ smPc[t] = "send"
  /\ Len(StateChangeChannel) < ChanCap
  /\ StateChangeChannel' = Append(StateChangeChannel, smOp[t].change)
  /\ smPc' = [smPc EXCEPT ![t] = "idle"]
  /\ smRet' = [smRet EXCEPT ![t] = [of |-> "AddStateChange", val |-> TRUE]]
  /\ UNCHANGED <<LoggedStates, CurrentStates, SafetyLock, received, submitted, smOp,
                 smCalls, mapVars, hashVars, cbVars, utilVars>>

\* a consumer receives from s.StateChangeChannel
Receive ==
  /\ StateChangeChannel # <<>>
  /\ received' = Append(received, Head(StateChangeChannel))
  /\ StateChangeChannel' = Tail(StateChangeChannel)
  /\ UNCHANGED <<LoggedStates, CurrentStates, SafetyLock, submitted, smPc, smOp, smRet,
                 smCalls, mapVars, hashVars, cbVars, utilVars>>

GetStateBody(t) ==
  /\ smPc[t] = "held" /\ smOp[t].name = "GetState"
  /\ SmReturn(t, GetState(smOp[t].systemName))
  /\ UNCHANGED <<LoggedStates, CurrentStates, StateChangeChannel, received, submitted,
                 smOp, smCalls, mapVars, hashVars, cbVars, utilVars>>

GetStateChangesForSystemBody(t) ==
  /\ smPc[t] = "held" /\ smOp[t].name = "GetStateChangesForSystem"
  /\ SmReturn(t, GetStateChangesForSystem(LoggedStates, smOp[t].systemName))
  /\ UNCHANGED <<LoggedStates, CurrentStates, StateChangeChannel, received, submitted,
                 smOp, smCalls, mapVars, hashVars, cbVars, utilVars>>

GetFilteredStateChangesBody(t) ==
  /\ smPc[t] = "held" /\ smOp[t].name = "GetFilteredStateChanges"
  /\ SmReturn(t, GetFilteredStateChanges(LoggedStates, smOp[t].systemName,
                                         smOp[t].fromState, smOp[t].toState,
                                         smOp[t].since, smOp[t].until))
  /\ UNCHANGED <<LoggedStates, CurrentStates, StateChangeChannel, received, submitted,
                 smOp, smCalls, mapVars, hashVars, cbVars, utilVars>>

\* s.LoggedStates = changes
PruneStateChangesBody(t) ==
  /\ smPc[t] = "held" /\ smOp[t].name = "PruneStateChanges"
  /\ LoggedStates' = PruneStateChanges(LoggedStates, smOp[t].systemName, smOp[t].since,
                                       smOp[t].until)
  /\ SmReturn(t, TRUE)
  /\ UNCHANGED <<CurrentStates, StateChangeChannel, received, submitted, smOp, smCalls,
                 mapVars, hashVars, cbVars, utilVars>>

CheckStateBody(t) ==
  /\ smPc[t] = "held" /\ smOp[t].name = "CheckState"
  /\ SmReturn(t, CheckState(smOp[t].state))
  /\ UNCHANGED <<LoggedStates, CurrentStates, StateChangeChannel, received, submitted,
                 smOp, smCalls, mapVars, hashVars, cbVars, utilVars>>

\* one round of CheckStates' loop (range over a map: any entry not yet visited):
\* CheckState(systemName, state), return false if it is false, true after the last
CheckStatesRound(t) ==
  /\ smPc[t] = "held" /\ smOp[t].name = "CheckStates"
  /\ \E n \in smOp[t].left :
       /\ smOp' = [smOp EXCEPT ![t].left = @ \ {n}]
       /\ SafetyLock' = 0
       /\ IF ~CheckState(smOp[t].states[n])
            THEN /\ smPc' = [smPc EXCEPT ![t] = "idle"]
                 /\ smRet' = [smRet EXCEPT ![t] = [of |-> "CheckStates", val |-> FALSE]]
            ELSE IF smOp[t].left = {n}
              THEN /\ smPc' = [smPc EXCEPT ![t] = "idle"]
                   /\ smRet' = [smRet EXCEPT ![t] = [of |-> "CheckStates", val |-> TRUE]]
              ELSE /\ smPc' = [smPc EXCEPT ![t] = "lock"]
                   /\ UNCHANGED smRet
  /\ UNCHANGED <<LoggedStates, CurrentStates, StateChangeChannel, received, submitted,
                 smCalls, mapVars, hashVars, cbVars, utilVars>>

\* ---- inputs of the StatesMan specifications
Systems == {"X", "Y"}
Transitions == {<<"", "created">>, <<"created", "started">>, <<"", "started">>}
Stamps == {1, 2}
\* arguments of CheckState: the recognized tokens, the empty token, an unknown one
Tokens == AvailableStates \cup {StateStringEmpty, "bogus"}
Changes == {StateChange(n, tr[1], tr[2], ts) : n \in Systems, tr \in Transitions,
                                                ts \in Stamps}
\* the records submitted in SpecLogAdds
FewChanges == {c \in Changes : c.Timestamp = 1 /\ c.ToState = "created"}
                \cup {c \in Changes : c.Timestamp = 2 /\ c.FromState = "created"}
\* the records concurrent callers submit in SpecLog
RaceChanges == {StateChange("X", "", "created", 1), StateChange("X", "created", "started", 2)}
\* the records submitted in SpecLogSeq
SeqChanges == {c \in Changes : c.SystemName = "X" \/ c \in FewChanges}
\* the maps CheckStates is called with
StateMaps == UNION {[D -> {"created", "failed", "bogus"}] : D \in SUBSET Systems}

AddCall(t, c, max) == SmCall(t, [name |-> "AddStateChange", change |-> c], max)
GetStateCall(t, n, max) == SmCall(t, [name |-> "GetState", systemName |-> n], max)
GetChangesCall(t, n, max) ==
  SmCall(t, [name |-> "GetStateChangesForSystem", systemName |-> n], max)
FilterCall(t, max) ==
  \E n \in Opt({"X"}), f \in Opt({"created"}), s \in Opt({"started"}),
     since \in Opt(Stamps), until \in Opt(Stamps) :
    SmCall(t, [name |-> "GetFilteredStateChanges", systemName |-> n, fromState |-> f,
               toState |-> s, since |-> since, until |-> until], max)
PruneCall(t, max) ==
  \E n \in Opt({"X"}), since \in Opt(Stamps), until \in Opt(Stamps) :
    SmCall(t, [name |-> "PruneStateChanges", systemName |-> n, since |-> since,
               until |-> until], max)
CheckStateCall(t, max) ==
  \E n \in Systems, st \in Tokens :
    SmCall(t, [name |-> "CheckState", systemName |-> n, state |-> st], max)

InitLog == NewConcurrentMap(MaxShards) /\ ThreadsInit /\ HashIdle /\ LogIdle /\ CbIdle /\ UtilIdle

\* SpecLog: NumThreads goroutines call AddStateChange and GetState, a consumer receives
NextLog ==
  \/ \E t \in Threads :
       \/ \E c \in RaceChanges : AddCall(t, c, LogCalls)
       \/ \E n \in Systems : GetStateCall(t, n, LogCalls)
       \/ SmLock(t)
       \/ AddStateChangeBody(t)
       \/ AddStateChangeSend(t)
       \/ GetStateBody(t)
  \/ Receive

SpecLog == InitLog /\ [][NextLog]_vars

\* SpecLogAdds: one goroutine calls AddStateChange and GetStateChangesForSystem, a
\* consumer receives
NextLogAdds ==
  \/ \E c \in FewChanges : AddCall(1, c, AddsCalls)
  \/ \E n \in Systems : GetChangesCall(1, n, AddsCalls)
  \/ SmLock(1)
  \/ AddStateChangeBody(1)
  \/ AddStateChangeSend(1)
  \/ GetStateChangesForSystemBody(1)
  \/ Receive

SpecLogAdds == InitLog /\ [][NextLogAdds]_vars

\* SpecLogSeq: one goroutine calls every method, LogSeqCalls calls (fewer than the
\* channel holds, so no send blocks)
NextLogSeq ==
  \/ \E c \in SeqChanges : AddCall(1, c, LogSeqCalls)
  \/ \E n \in Systems : GetStateCall(1, n, LogSeqCalls)
  \/ \E n \in Systems : GetChangesCall(1, n, LogSeqCalls)
  \/ FilterCall(1, LogSeqCalls)
  \/ PruneCall(1, LogSeqCalls)
  \/ CheckStateCall(1, LogSeqCalls)
  \/ \E m \in StateMaps : CheckStatesCall(1, m, LogSeqCalls)
  \/ SmLock(1)
  \/ AddStateChangeBody(1)
  \/ AddStateChangeSend(1)
  \/ GetStateBody(1)
  \/ GetStateChangesForSystemBody(1)
  \/ GetFilteredStateChangesBody(1)
  \/ PruneStateChangesBody(1)
  \/ CheckStateBody(1)
  \/ CheckStatesRound(1)

SpecLogSeq == InitLog /\ [][NextLogSeq]_vars

\* SpecChan: one goroutine calls AddStateChange ChanCalls times, stamping its records
\* 1, 2, ..., and a consumer that may or may not receive
NextChan ==
  \/ AddCall(1, StateChange("X", "", "created", smCalls + 1), ChanCalls)
  \/ SmLock(1)
  \/ AddStateChangeBody(1)
  \/ AddStateChangeSend(1)
  \/ Receive

SpecChan == InitLog /\ [][NextChan]_vars

\* SpecLive: AddStateChange is called LiveCalls times, more than the channel holds,
\* the records stamped 1, 2, ...: goroutine 1 calls again and again, goroutine 2
\* once; a consumer keeps receiving.
\* A goroutine that can take a step takes it, and so does the consumer: the calls
\* being finitely many, the lock and the room in the channel that a goroutine waits
\* for stay available once the others have returned, so weak fairness is enough.
NextLive ==
  \/ \E t \in {1, 2} :
       \/ (t = 1 /\ AddCall(t, StateChange("X", "", "created", smCalls + 1), LiveCalls))
       \/ (t # 1 /\ smOp[t] = NoSmOp
             /\ AddCall(t, StateChange("Y", "", "created", smCalls + 1), LiveCalls))
       \/ SmLock(t)
       \/ AddStateChangeBody(t)
       \/ AddStateChangeSend(t)
  \/ Receive

FairLive ==
  /\ \A t \in {1, 2} :
       /\ WF_vars(SmLock(t))
       /\ WF_vars(AddStateChangeBody(t))
       /\ WF_vars(AddStateChangeSend(t))
  /\ WF_vars(Receive)

SpecLive == InitLog /\ [][NextLive]_vars /\ FairLive

\* SpecBlocked: the consumer has stopped receiving.  Goroutine 1 calls
\* AddStateChange ChanCap + 1 times, the records stamped 1, 2, ..., so that its last
\* call finds the channel full; from that call on goroutine 2 issues BlockedCalls
\* calls of AddStateChange, GetState, GetStateChangesForSystem,
\* GetFilteredStateChanges, PruneStateChanges and CheckState.
\* A goroutine that can take the lock or finish its critical section does so.
BlockedMax == ChanCap + 1 + BlockedCalls
NextBlocked ==
  \/ AddCall(1, StateChange("X", "", "created", smCalls + 1), ChanCap + 1)
  \/ /\ smCalls >= ChanCap + 1
     /\ \/ AddCall(2, StateChange("X", "created", "started", smCalls + 1), BlockedMax)
        \/ GetStateCall(2, "X", BlockedMax)
        \/ GetChangesCall(2, "X", BlockedMax)
        \/ SmCall(2, [name |-> "GetFilteredStateChanges", systemName |-> {"X"},
                      fromState |-> Nil, toState |-> {"created"}, since |-> Nil,
                      until |-> Nil], BlockedMax)
        \/ \E n \in Opt({"Y"}) :
             SmCall(2, [name |-> "PruneStateChanges", systemName |-> n, since |-> Nil,
                        until |-> Nil], BlockedMax)
        \/ \E st \in {"created", "bogus"} :
             SmCall(2, [name |-> "CheckState", systemName |-> "X", state |-> st],
                    BlockedMax)
  \/ \E t \in {1, 2} :
       \/ SmLock(t)
       \/ AddStateChangeBody(t)
       \/ AddStateChangeSend(t)
       \/ GetStateBody(t)
       \/ GetStateChangesForSystemBody(t)
       \/ GetFilteredStateChangesBody(t)
       \/ PruneStateChangesBody(t)
       \/ CheckStateBody(t)

FairBlocked ==
  \A t \in {1, 2} :
     /\ WF_vars(SmLock(t))
     /\ WF_vars(AddStateChangeBody(t))
     /\ WF_vars(GetStateBody(t))
     /\ WF_vars(GetStateChangesForSystemBody(t))
     /\ WF_vars(GetFilteredStateChangesBody(t))
     /\ WF_vars(PruneStateChangesBody(t))
     /\ WF_vars(CheckStateBody(t))

SpecBlocked == InitLog /\ [][NextBlocked]_vars /\ FairBlocked

\* SpecCB: a breaker of any configuration up to MaxThreshold, CbCalls calls of
\* Execute with any outcome of f, the clock advancing between them or not
InitCB ==
  /\ NewConcurrentMap(MaxShards) /\ ThreadsInit /\ HashIdle /\ LogIdle /\ UtilIdle
  /\ \E ft \in 0..MaxThreshold, rt \in 0..MaxThreshold, hs \in 0..MaxThreshold :
       NewCircuitBreaker(ft, rt, hs)

NextCB ==
  \/ \E outcome \in Outcomes : Execute(outcome)
  \/ Tick

SpecCB == InitCB /\ [][NextCB]_vars

\* ========================================================== EventEmitter
\* One goroutine ("main") calls the emitter; EmitConcurrent starts one goroutine
\* per listener.  A listener is [id, once, off]: id numbers the registration,
\* once marks Once's wrapper, off is the name the wrapper passes to ee.Off (the
\* name argument of Once, which is "" when On generated the ID).  ee.mu is held
\* for writing only inside a step; ee.readers are the goroutines inside RLock.
EeEvents == {"e"}
EeNames == {"", "a"}
\* gonanoid.New(): the ID generated for the i-th registration
GenNames == <<"g1", "g2", "g3", "g4", "g5", "g6", "g7", "g8">>

\* ee.listeners[event], nil read as the empty map
EeListeners(event) ==
  IF event \in DOMAIN emitter.listeners THEN emitter.listeners[event] ELSE <<>>

\* m with key k set to v
EeWith(m, k, v) == [x \in DOMAIN m \cup {k} |-> IF x = k THEN v ELSE m[x]]
\* m without key k
EeWithout(m, k) == [x \in DOMAIN m \ {k} |-> m[x]]

\* the other variables
EeOthers == <<oldVars, memo, retry, mapred, ival, limiter, cond, pager>>

\* ee.On(event, name, fn), and ee.Once(event, name, fn) when once: the whole call
EeOn(event, name, once) ==
  /\ emitter.pc = "idle" /\ emitter.calls < EeCalls
  /\ emitter.readers = {}
  /\ LET id == emitter.nextId + 1
         key == IF name = "" THEN GenNames[id] ELSE name
         l == [id |-> id, once |-> once, off |-> name]
     IN emitter' = [emitter EXCEPT
                      !.listeners = EeWith(@, event, EeWith(EeListeners(event), key, l)),
                      !.nextId = id,
                      !.invoked = EeWith(@, id, 0),
                      !.onceIds = IF once THEN @ \cup {id} ELSE @,
                      !.op = [name |-> IF once THEN "Once" ELSE "On", event |-> event],
                      !.ret = key,
                      !.calls = @ + 1]
  /\ UNCHANGED EeOthers

\* what ee.Off(event, name) leaves of the listeners
EeOffMap(event, name) ==
  IF name \in DOMAIN EeListeners(event)
    THEN EeWith(emitter.listeners, event, EeWithout(EeListeners(event), name))
    ELSE emitter.listeners

\* ee.Off(event, name) called by main: the whole call
EeOff(event, name) ==
  /\ emitter.pc = "idle" /\ emitter.calls < EeCalls
  /\ emitter.readers = {}
  /\ emitter' = [emitter EXCEPT
                   !.listeners = EeOffMap(event, name),
                   !.op = [name |-> "Off", event |-> event],
                   !.ret = IF name \in DOMAIN EeListeners(event) THEN "nil" ELSE "error",
                   !.calls = @ + 1]
  /\ UNCHANGED EeOthers

\* ee.ListenerCount(event): the whole call
EeListenerCount(event) ==
  /\ emitter.pc = "idle" /\ emitter.calls < EeCalls
  /\ emitter' = [emitter EXCEPT
                   !.op = [name |-> "ListenerCount", event |-> event],
                   !.ret = Cardinality(DOMAIN EeListeners(event)),
                   !.calls = @ + 1]
  /\ UNCHANGED EeOthers

\* ee.Emit(event, args...): RLock, and return nil if the event has no entry
EeEmitStart(event, argsOk) ==
  /\ emitter.pc = "idle" /\ emitter.calls < EeCalls
  /\ IF event \in DOMAIN emitter.listeners
       THEN emitter' = [emitter EXCEPT
                          !.op = [name |-> "Emit", event |-> event, argsOk |-> argsOk,
                                  off |-> ""],
                          !.ret = "none", !.calls = @ + 1, !.visited = {},
                          !.readers = @ \cup {"main"}, !.pc = "emit"]
       ELSE emitter' = [emitter EXCEPT
                          !.op = [name |-> "Emit", event |-> event, argsOk |-> argsOk,
                                  off |-> ""],
                          !.ret = "nil", !.calls = @ + 1]
  /\ UNCHANGED EeOthers

\* one round of Emit's loop: callListener on a listener not yet visited (range over
\* a map: any order); Once's wrapper calls fn and then ee.Off
EeEmitNext ==
  /\ emitter.pc = "emit"
  /\ LET left == DOMAIN EeListeners(emitter.op.event) \ emitter.visited
     IN IF left = {}
          THEN emitter' = [emitter EXCEPT !.pc = "idle", !.ret = "nil",
                                          !.readers = @ \ {"main"}]
          ELSE \E n \in left :
                 LET l == EeListeners(emitter.op.event)[n]
                 IN IF ~emitter.op.argsOk
                      THEN emitter' = [emitter EXCEPT !.pc = "idle", !.ret = "error",
                                                      !.readers = @ \ {"main"}]
                      ELSE emitter' = [emitter EXCEPT
                                         !.invoked[l.id] = @ + 1,
                                         !.visited = @ \cup {n},
                                         !.pc = IF l.once THEN "off" ELSE "emit",
                                         !.op = IF l.once
                                                  THEN [emitter.op EXCEPT !.off = l.off]
                                                  ELSE @]
  /\ UNCHANGED EeOthers

\* ee.EmitConcurrent(event, args...): listeners := ee.listeners[event] under RLock,
\* return nil if it is empty
EeConcurrentStart(event, argsOk) ==
  /\ emitter.pc = "idle" /\ emitter.calls < EeCalls
  /\ IF DOMAIN EeListeners(event) = {}
       THEN emitter' = [emitter EXCEPT
                          !.op = [name |-> "EmitConcurrent", event |-> event,
                                  argsOk |-> argsOk],
                          !.ret = "nil", !.calls = @ + 1]
       ELSE emitter' = [emitter EXCEPT
                          !.op = [name |-> "EmitConcurrent", event |-> event,
                                  argsOk |-> argsOk],
                          !.ret = "none", !.calls = @ + 1, !.visited = {},
                          !.snapshot = EeListeners(event), !.gos = <<>>,
                          !.pc = "spawn"]
  /\ UNCHANGED EeOthers

\* one round of EmitConcurrent's loop, which ranges over the shared map without the
\* lock: go func(l) for a listener not yet visited.  A listener that a started
\* goroutine has deleted meanwhile is produced or not (unsynchronized iteration).
EeSpawn ==
  /\ emitter.pc = "spawn"
  /\ LET left == DOMAIN emitter.snapshot \ emitter.visited
     IN IF left = {}
          THEN emitter' = [emitter EXCEPT !.pc = "wait"]
          ELSE \E n \in left :
                 \/ emitter' = [emitter EXCEPT
                                  !.visited = @ \cup {n},
                                  !.gos = EeWith(@, n, [l |-> emitter.snapshot[n],
                                                        pc |-> "call", err |-> FALSE])]
                 \/ /\ n \notin DOMAIN EeListeners(emitter.op.event)
                    /\ emitter' = [emitter EXCEPT !.visited = @ \cup {n}]
  /\ UNCHANGED EeOthers

\* the goroutine started for listener n: callListener(l, args)
EeGoCall(n) ==
  /\ emitter.pc # "fatal"
  /\ emitter.gos[n].pc = "call"
  /\ IF ~emitter.op.argsOk
       THEN emitter' = [emitter EXCEPT !.gos[n].pc = "done", !.gos[n].err = TRUE]
       ELSE emitter' = [emitter EXCEPT
                          !.invoked[emitter.gos[n].l.id] = @ + 1,
                          !.gos[n].pc = IF emitter.gos[n].l.once THEN "off" ELSE "done"]
  /\ UNCHANGED EeOthers

\* ee.Off(event, name) called by Once's wrapper in goroutine g, which is main inside
\* Emit or the goroutine EmitConcurrent started for listener g: Lock returns when
\* no goroutine is inside RLock (main inside Emit is), then the entry is deleted
EeWrapperOff(g) ==
  /\ emitter.readers = {}
  /\ IF g = "main"
       THEN /\ emitter.pc = "off"
            /\ emitter' = [emitter EXCEPT
                             !.listeners = EeOffMap(emitter.op.event, emitter.op.off),
                             !.pc = "emit"]
       ELSE /\ emitter.pc # "fatal"
            /\ emitter.gos[g].pc = "off"
            /\ emitter' = [emitter EXCEPT
                             !.listeners = EeOffMap(emitter.op.event, emitter.gos[g].l.off),
                             !.gos[g].pc = "done"]
  /\ UNCHANGED EeOthers

\* the runtime detects the map write of a goroutine's Off during main's iteration:
\* fatal error: concurrent map iteration and map write
EeFatal ==
  /\ emitter.pc = "spawn"
  /\ \E n \in DOMAIN emitter.gos :
       /\ emitter.gos[n].pc = "off"
       /\ emitter.gos[n].l.off \in DOMAIN EeListeners(emitter.op.event)
  /\ emitter' = [emitter EXCEPT !.pc = "fatal"]
  /\ UNCHANGED EeOthers

\* wg.Wait() returns; the first error on errChan, or nil
EeWait ==
  /\ emitter.pc = "wait"
  /\ \A n \in DOMAIN emitter.gos : emitter.gos[n].pc = "done"
  /\ emitter' = [emitter EXCEPT
                   !.pc = "idle",
                   !.ret = IF \E n \in DOMAIN emitter.gos : emitter.gos[n].err
                             THEN "error" ELSE "nil",
                   !.gos = <<>>, !.snapshot = <<>>, !.visited = {}]
  /\ UNCHANGED EeOthers

InitEE ==
  /\ NewConcurrentMap(MaxShards) /\ ThreadsInit /\ HashIdle /\ LogIdle /\ CbIdle
  /\ UtilIdle

\* SpecEE: EeCalls calls of the emitter's methods by one goroutine
NextEE ==
  \/ \E event \in EeEvents, name \in EeNames, once \in BOOLEAN : EeOn(event, name, once)
  \/ \E event \in EeEvents, name \in {"a", "g1"} : EeOff(event, name)
  \/ \E event \in EeEvents : EeListenerCount(event)
  \/ \E event \in EeEvents, argsOk \in BOOLEAN : EeEmitStart(event, argsOk)
  \/ EeEmitNext
  \/ \E event \in EeEvents, argsOk \in BOOLEAN : EeConcurrentStart(event, argsOk)
  \/ EeSpawn
  \/ \E n \in DOMAIN emitter.gos : EeGoCall(n)
  \/ \E g \in {"main"} \cup DOMAIN emitter.gos : EeWrapperOff(g)
  \/ EeFatal
  \/ EeWait

SpecEE == InitEE /\ [][NextEE]_vars

\* =============================================================== Memoize
\* f is func(string) int and need not be pure.  An argument is [type, text]: text
\* is what fmt's %v prints for it.  A cacheEntry is [result, expiry].  memo.invs is
\* the history of f's invocations: [key, at, expiry].
MzInt(text) == [type |-> "int", text |-> text]
MzString(text) == [type |-> "string", text |-> text]
\* Call("1 2"), Call(1, 2) and Call(1)
MzArgLists == {<<MzString("1 2")>>, <<MzInt("1"), MzInt("2")>>, <<MzInt("1")>>}
MzResults == {10, 20}
\* the parameter types of f
MzIn == <<"string">>

\* fmt.Sprintf("%v", args): the arguments' texts separated by one space, between
\* brackets; neither the types nor the boundaries of the arguments are shown
MzKey(args) ==
  LET RECURSIVE Joined(_)
      Joined(n) == IF n = 0 THEN ""
                   ELSE IF n = 1 THEN args[1].text
                   ELSE Joined(n - 1) \o " " \o args[n].text
  IN "[" \o Joined(Len(args)) \o "]"

\* found && (m.ttl == 0 || time.Now().Before(entry.expiry))
MzFresh(found, entry) == found /\ (memo.ttl = 0 \/ memo.now < entry.expiry)

\* len(args) != t.NumIn(), reflect.TypeOf(arg) != t.In(i)
MzArgsFit(args) ==
  /\ Len(args) = Len(MzIn)
  /\ \A i \in 1..Len(args) : args[i].type = MzIn[i]

MzOthers == <<oldVars, emitter, retry, mapred, ival, limiter, cond, pager>>

\* goroutine t calls m.Call(args...)
MzCall(t, args) ==
  /\ memo.th[t].pc = "idle" /\ memo.calls < MzCalls
  /\ memo' = [memo EXCEPT !.calls = @ + 1,
                          !.th[t] = [pc |-> "read", args |-> args, found |-> FALSE,
                                     entry |-> <<>>, ret |-> <<>>]]
  /\ UNCHANGED MzOthers

\* m.mu.RLock(); entry, found := m.cache[key]; m.mu.RUnlock()
MzRead(t) ==
  /\ memo.th[t].pc = "read"
  /\ memo.writer = 0
  /\ LET key == MzKey(memo.th[t].args)
     IN memo' = [memo EXCEPT
                   !.th[t].pc = "check",
                   !.th[t].found = key \in DOMAIN memo.cache,
                   !.th[t].entry = IF key \in DOMAIN memo.cache THEN memo.cache[key]
                                   ELSE <<>>]
  /\ UNCHANGED MzOthers

\* the first if: return the entry read, or go on to m.mu.Lock()
MzCheck(t) ==
  /\ memo.th[t].pc = "check"
  /\ IF MzFresh(memo.th[t].found, memo.th[t].entry)
       THEN memo' = [memo EXCEPT
                       !.th[t].pc = "idle",
                       !.th[t].ret = [val |-> memo.th[t].entry.result, err |-> FALSE,
                                      via |-> "read"]]
       ELSE memo' = [memo EXCEPT !.th[t].pc = "lock"]
  /\ UNCHANGED MzOthers

\* m.mu.Lock() returns
MzLock(t) ==
  /\ memo.th[t].pc = "lock"
  /\ memo.writer = 0
  /\ memo' = [memo EXCEPT !.writer = t, !.th[t].pc = "held"]
  /\ UNCHANGED MzOthers

\* mutant of MzRecheck: no second look at the cache under the lock
MzNoRecheck(t) ==
  /\ memo.th[t].pc = "held"
  /\ IF ~MzArgsFit(memo.th[t].args)
       THEN memo' = [memo EXCEPT
                       !.writer = 0, !.th[t].pc = "idle",
                       !.th[t].ret = [val |-> 0, err |-> TRUE, via |-> "lock"]]
       ELSE memo' = [memo EXCEPT !.th[t].pc = "calling"]
  /\ UNCHANGED MzOthers

\* under the lock: the second look at the cache, the checks of the arguments
\* against f's type, and v.Call(in) begins
MzRecheck(t) ==
  /\ memo.th[t].pc = "held"
  /\ LET key == MzKey(memo.th[t].args)
         found == key \in DOMAIN memo.cache
     IN IF MzFresh(found, IF found THEN memo.cache[key] ELSE <<>>)
          THEN memo' = [memo EXCEPT
                          !.writer = 0, !.th[t].pc = "idle",
                          !.th[t].ret = [val |-> memo.cache[key].result, err |-> FALSE,
                                         via |-> "lock"]]
          ELSE IF ~MzArgsFit(memo.th[t].args)
            THEN memo' = [memo EXCEPT
                            !.writer = 0, !.th[t].pc = "idle",
                            !.th[t].ret = [val |-> 0, err |-> TRUE, via |-> "lock"]]
            ELSE memo' = [memo EXCEPT !.th[t].pc = "calling"]
  /\ UNCHANGED MzOthers

\* f returns out: m.cache[key] = cacheEntry{out, time.Now().Add(m.ttl)}, unlock, return
MzStore(t, out) ==
  /\ memo.th[t].pc = "calling"
  /\ LET key == MzKey(memo.th[t].args)
         e == [result |-> out, expiry |-> memo.now + memo.ttl]
     IN memo' = [memo EXCEPT
                   !.cache = [k \in DOMAIN @ \cup {key} |-> IF k = key THEN e ELSE @[k]],
                   !.invs = Append(@, [key |-> key, at |-> memo.now,
                                       expiry |-> memo.now + memo.ttl]),
                   !.writer = 0, !.th[t].pc = "idle",
                   !.th[t].ret = [val |-> out, err |-> FALSE, via |-> "f"]]
  /\ UNCHANGED MzOthers

\* the clock advances
MzTick ==
  /\ memo.now < MzTime
  /\ memo' = [memo EXCEPT !.now = @ + 1]
  /\ UNCHANGED MzOthers

InitMZ ==
  /\ NewConcurrentMap(MaxShards) /\ ThreadsInit /\ HashIdle /\ LogIdle /\ CbIdle
  /\ EeIdle /\ RtIdle /\ MrIdle /\ IvIdle /\ RlIdle /\ CeIdle /\ PgIdle
  /\ FsmIdle /\ RsmIdle
  /\ \E ttl \in {0, 2} : memo = Memoize(ttl)

\* SpecMZ: NumThreads goroutines, MzCalls calls, the clock up to MzTime
NextMZ ==
  \/ \E t \in Threads :
       \/ \E args \in MzArgLists : MzCall(t, args)
       \/ MzRead(t)
       \/ MzCheck(t)
       \/ MzLock(t)
       \/ MzRecheck(t)
       \/ \E out \in MzResults : MzStore(t, out)
  \/ MzTick

SpecMZ == InitMZ /\ [][NextMZ]_vars

\* ================================================================== Retry
\* retry.invoked counts f's invocations of the current call, retry.nils those that
\* returned nil, retry.observed records that the select took <-ctx.Done().
RtAttempts == (0 - 1)..MaxAttempts
RtErrors == {"e1", "e2"}
RtOthers == <<oldVars, emitter, memo, mapred, ival, limiter, cond, pager>>

\* for i := 0; i < attempts; i++ : the loop's condition
RtLoop(i, attempts) == i < attempts

\* Retry(ctx, attempts, initialDelay, maxDelay, f) is called; ctx may be cancelled already
RtStart(attempts, cancelled) ==
  /\ retry.pc \in {"idle", "done"} /\ retry.calls < RtCalls
  /\ retry' = [NoRetry EXCEPT
                 !.calls = retry.calls + 1, !.attempts = attempts, !.cancelled = cancelled,
                 !.pc = IF RtLoop(0, attempts) THEN "f" ELSE "done",
                 !.ret = IF RtLoop(0, attempts) THEN "none" ELSE "failed after attempts: nil"]
  /\ UNCHANGED RtOthers

\* err = f(); return nil, or break on the last attempt, or go on to the select
RtF(out) ==
  /\ retry.pc = "f"
  /\ retry' = [retry EXCEPT
                 !.invoked = @ + 1,
                 !.nils = IF out = "nil" THEN @ + 1 ELSE @,
                 !.err = out,
                 !.pc = IF out = "nil" \/ retry.i = retry.attempts - 1 THEN "done" ELSE "select",
                 !.ret = IF out = "nil" THEN "nil"
                         ELSE IF retry.i = retry.attempts - 1
                           THEN "failed after attempts: " \o out
                           ELSE "none"]
  /\ UNCHANGED RtOthers

\* mutant of RtDone: the cancellation is seen and the loop goes on
RtDoneContinue ==
  /\ retry.pc = "select" /\ retry.cancelled
  /\ retry' = [retry EXCEPT !.observed = TRUE, !.i = @ + 1, !.pc = "f"]
  /\ UNCHANGED RtOthers

\* case <-ctx.Done(): return "operation cancelled"
RtDone ==
  /\ retry.pc = "select" /\ retry.cancelled
  /\ retry' = [retry EXCEPT !.observed = TRUE, !.pc = "done", !.ret = "operation cancelled"]
  /\ UNCHANGED RtOthers

\* case <-time.After(backoffDuration(...)): i++ and the loop's condition
RtAfter ==
  /\ retry.pc = "select"
  /\ retry' = [retry EXCEPT
                 !.i = @ + 1,
                 !.pc = IF RtLoop(retry.i + 1, retry.attempts) THEN "f" ELSE "done",
                 !.ret = IF RtLoop(retry.i + 1, retry.attempts) THEN "none"
                         ELSE "failed after attempts: " \o retry.err]
  /\ UNCHANGED RtOthers

\* the context is cancelled by its owner
RtCancel ==
  /\ retry.pc \in {"f", "select"} /\ ~retry.cancelled
  /\ retry' = [retry EXCEPT !.cancelled = TRUE]
  /\ UNCHANGED RtOthers

InitRT ==
  /\ NewConcurrentMap(MaxShards) /\ ThreadsInit /\ HashIdle /\ LogIdle /\ CbIdle
  /\ UtilIdle

\* SpecRT: RtCalls calls of Retry with attempts up to MaxAttempts
NextRT ==
  \/ \E attempts \in RtAttempts, cancelled \in BOOLEAN : RtStart(attempts, cancelled)
  \/ \E out \in RtErrors \cup {"nil"} : RtF(out)
  \/ RtDone
  \/ RtAfter
  \/ RtCancel

SpecRT == InitRT /\ [][NextRT]_vars

\* ==================================================== ConcurrentMapReduce
\* T = R = int.  mapFunc squares (the documented example); reduceFunc is the sum
\* or the maximum, both associative and commutative.  Workers are numbered from 0
\* as in the code, slices are indexed from 1.
MrInputs == UNION {[1..n -> {1, 2}] : n \in 0..MaxInput}
MrInits == {0, 1}
MrOps == {"sum", "max"}
MrProcs == 1..MaxProcs
MrOthers == <<oldVars, emitter, memo, retry, ival, limiter, cond, pager>>

mapFunc(x) == x * x
reduceFunc(rf, a, b) == IF rf = "sum" THEN a + b ELSE IF a >= b THEN a ELSE b

\* ParallelSliceMap: chunkSize, and the end of worker w's chunk
\* [w * chunkSize, min(w * chunkSize + chunkSize, len))
MrChunkSize(input, procs) == (Len(input) + procs - 1) \div procs
MrChunkEnd(input, procs, w) ==
  IF w * MrChunkSize(input, procs) + MrChunkSize(input, procs) > Len(input)
    THEN Len(input)
    ELSE w * MrChunkSize(input, procs) + MrChunkSize(input, procs)

\* intermediateResults.Range: finalResult = reduceFunc(finalResult, value) per entry
RECURSIVE MrRange(_, _, _, _)
MrRange(rf, acc, inter, keys) ==
  IF keys = {} THEN acc
  ELSE LET k == CHOOSE x \in keys : \A y \in keys : x <= y
       IN MrRange(rf, reduceFunc(rf, acc, inter[k]), inter, keys \ {k})

\* ConcurrentMapReduce is called, with a context that is cancelled already or not:
\* ParallelSliceMap makes results, all zero values, and starts its workers, worker
\* w at index w * chunkSize
MrStart(input, init, rf, procs, cancelled) ==
  /\ mapred.pc \in {"idle", "done"} /\ mapred.calls < MrCalls
  /\ mapred' = [NoMapReduce EXCEPT
                  !.calls = mapred.calls + 1, !.pc = "map", !.input = input,
                  !.init = init, !.op = rf, !.procs = procs, !.cancelled = cancelled,
                  !.mapped = [k \in 1..Len(input) |-> 0],
                  !.j = [w \in 0..(procs - 1) |-> w * MrChunkSize(input, procs)],
                  !.state = [w \in 0..(procs - 1) |-> "run"]]
  /\ UNCHANGED MrOthers

\* one iteration of the loop of worker w of ParallelSliceMap: the select, which
\* sends ctx.Err() and ends the worker, or results[j] = mapFunc(input[j])
MrMap(w) ==
  /\ mapred.pc = "map" /\ w \in DOMAIN mapred.state /\ mapred.state[w] = "run"
  /\ mapred.j[w] < MrChunkEnd(mapred.input, mapred.procs, w)
  /\ IF mapred.cancelled
       THEN mapred' = [mapred EXCEPT !.state[w] = "err", !.errs = @ + 1]
       ELSE mapred' = [mapred EXCEPT
                         !.mapped[mapred.j[w] + 1] = mapFunc(mapred.input[mapred.j[w] + 1]),
                         !.j[w] = @ + 1]
  /\ UNCHANGED MrOthers

\* wg.Wait() of ParallelSliceMap returns, every worker having ended by an error
\* or at the end of its chunk: the error of errChan ends ConcurrentMapReduce, and
\* without one the reduction workers are started, worker w at index w
MrMapped ==
  /\ mapred.pc = "map"
  /\ \A w \in DOMAIN mapred.state :
       \/ mapred.state[w] = "err"
       \/ mapred.j[w] >= MrChunkEnd(mapred.input, mapred.procs, w)
  /\ IF mapred.errs > 0
       THEN mapred' = [mapred EXCEPT
                         !.pc = "done", !.mapped = <<>>,
                         !.ret = [val |-> mapred.init, err |-> "mapping operation failed"]]
       ELSE mapred' = [mapred EXCEPT
                         !.pc = "reduce",
                         !.j = [w \in 0..(mapred.procs - 1) |-> w],
                         !.local = [w \in 0..(mapred.procs - 1) |-> mapred.init],
                         !.state = [w \in 0..(mapred.procs - 1) |-> "run"]]
  /\ UNCHANGED MrOthers

\* one iteration of worker w's loop: the select
MrReduce(w) ==
  /\ mapred.pc = "reduce" /\ w \in DOMAIN mapred.state /\ mapred.state[w] = "run"
  /\ mapred.j[w] < Len(mapred.mapped)
  /\ IF mapred.cancelled
       THEN mapred' = [mapred EXCEPT !.state[w] = "err", !.errs = @ + 1]
       ELSE mapred' = [mapred EXCEPT
                         !.local[w] = reduceFunc(mapred.op, @, mapred.mapped[mapred.j[w] + 1]),
                         !.j[w] = @ + mapred.procs]
  /\ UNCHANGED MrOthers

\* worker w's loop is over: intermediateResults.Set(workerID, localResult)
MrSet(w) ==
  /\ mapred.pc = "reduce" /\ w \in DOMAIN mapred.state /\ mapred.state[w] = "run"
  /\ mapred.j[w] >= Len(mapred.mapped)
  /\ mapred' = [mapred EXCEPT
                  !.state[w] = "done",
                  !.inter = [k \in DOMAIN @ \cup {w} |->
                               IF k = w THEN mapred.local[w] ELSE @[k]]]
  /\ UNCHANGED MrOthers

\* the final reduction: finalResult := initialValue, then Range
MrFinalResult(rf, init, inter) == MrRange(rf, init, inter, DOMAIN inter)

\* wg.Wait() returns: the error of errChan, or the final reduction
MrFinal ==
  /\ mapred.pc = "reduce"
  /\ \A w \in DOMAIN mapred.state : mapred.state[w] # "run"
  /\ mapred' = [mapred EXCEPT
                  !.pc = "done",
                  !.ret = IF mapred.errs > 0
                            THEN [val |-> mapred.init, err |-> "reduction operation cancelled"]
                            ELSE [val |-> MrFinalResult(mapred.op, mapred.init, mapred.inter),
                                  err |-> "nil"]]
  /\ UNCHANGED MrOthers

\* the context is cancelled during the mapping or during the reduction
MrCancel ==
  /\ mapred.pc \in {"map", "reduce"} /\ ~mapred.cancelled
  /\ mapred' = [mapred EXCEPT !.cancelled = TRUE]
  /\ UNCHANGED MrOthers

InitMR ==
  /\ NewConcurrentMap(MaxShards) /\ ThreadsInit /\ HashIdle /\ LogIdle /\ CbIdle
  /\ UtilIdle

\* SpecMR: MrCalls calls, inputs up to MaxInput elements, up to MaxProcs workers
NextMR ==
  \/ \E input \in MrInputs, init \in MrInits, rf \in MrOps, procs \in MrProcs,
        cancelled \in BOOLEAN : MrStart(input, init, rf, procs, cancelled)
  \/ \E w \in 0..(MaxProcs - 1) : MrMap(w)
  \/ MrMapped
  \/ \E w \in 0..(MaxProcs - 1) : MrReduce(w)
  \/ \E w \in 0..(MaxProcs - 1) : MrSet(w)
  \/ MrFinal
  \/ MrCancel

SpecMR == InitMR /\ [][NextMR]_vars

\* ============================================================= GoInterval
\* The code takes no lock: every read and write of a field of the GoInterval, every
\* ticker operation and every channel operation is a step of its own, and the
\* steps of the caller and of the goroutines interleave freely.
\* ival.falsed: the call function has returned false and Start was not called
\* since; ival.again: the call function was invoked while ival.falsed, by a
\* goroutine or as the immediate call of a Start that was called before the
\* false return.
IvOthers == <<oldVars, emitter, memo, retry, mapred, limiter, cond, pager>>

\* State()
IvState == ival.active

\* who runs a step: 0 is the caller of Start and Stop, g > 0 the goroutine g
IvPc(who) == IF who = 0 THEN ival.main ELSE ival.gos[who].pc
IvAt(iv, who, at) ==
  IF who = 0 THEN [iv EXCEPT !.main = at] ELSE [iv EXCEPT !.gos[who].pc = at]
IvOver(who) == IF who = 0 THEN "idle" ELSE "exited"
IvWho(who) == who = 0 \/ who \in DOMAIN ival.gos

\* Start(duration, runImmediately), and Interval as the first call: the previous
\* ticker, if any, is stopped
IvStart(runImmediately) ==
  /\ ival.main = "idle" /\ ival.calls < IvCalls
  /\ ival' = [ival EXCEPT !.calls = @ + 1, !.falsed = FALSE,
                !.runImmediately = runImmediately, !.main = "newticker",
                !.tickers = IF @ = <<>> THEN @
                            ELSE [@ EXCEPT ![Len(@)].running = FALSE]]
  /\ UNCHANGED IvOthers

\* one step of the rest of Start: iv.ticker = time.NewTicker; iv.active = true;
\* the goroutine is started; with runImmediately the call function is invoked,
\* which is an invocation after a false return when ival.falsed
IvStartStep ==
  /\ ival.main \in {"newticker", "activate", "go", "invoke"}
  /\ ival' =
       CASE ival.main = "newticker" ->
              [ival EXCEPT !.tickers = Append(@, [running |-> TRUE, tick |-> 0]),
                           !.main = "activate"]
         [] ival.main = "activate" ->
              [ival EXCEPT !.active = TRUE, !.main = "go"]
         [] ival.main = "go" ->
              [ival EXCEPT !.runImmediately = FALSE,
                           !.gos = Append(@, [pc |-> "loop", on |-> 0]),
                           !.main = IF ival.runImmediately THEN "invoke" ELSE "idle"]
         [] ival.main = "invoke" ->
              [ival EXCEPT !.main = "immediate", !.again = @ \/ ival.falsed]
  /\ UNCHANGED IvOthers

\* the immediate call returns: on false Start calls Stop
IvImmediate(result) ==
  /\ ival.main = "immediate"
  /\ ival' = IF result THEN [ival EXCEPT !.main = "idle"]
             ELSE [ival EXCEPT !.falsed = TRUE, !.main = "stop"]
  /\ UNCHANGED IvOthers

\* the caller calls Stop()
IvStop ==
  /\ ival.main = "idle" /\ ival.calls > 0 /\ ival.calls < IvCalls
  /\ ival' = [ival EXCEPT !.calls = @ + 1, !.main = "stop"]
  /\ UNCHANGED IvOthers

\* one step of a Stop() run by the caller or by a goroutine: the read of active,
\* iv.ticker.Stop(), the read of callHasCancelled (the send itself is IvReceive),
\* iv.ticker.Reset, active = false
IvStopStep(who) ==
  /\ IvWho(who) /\ IvPc(who) \in {"stop", "tickerstop", "cancelled", "reset", "clear"}
  /\ ival' =
       CASE IvPc(who) = "stop" ->
              IvAt(ival, who, IF ival.active THEN "tickerstop" ELSE IvOver(who))
         [] IvPc(who) = "tickerstop" ->
              IvAt([ival EXCEPT !.tickers[Len(ival.tickers)].running = FALSE],
                   who, "cancelled")
         [] IvPc(who) = "cancelled" ->
              IvAt(ival, who, IF ival.callHasCancelled THEN "reset" ELSE "send")
         [] IvPc(who) = "reset" ->
              IvAt([ival EXCEPT !.tickers[Len(ival.tickers)].running = TRUE],
                   who, "clear")
         [] IvPc(who) = "clear" ->
              IvAt([ival EXCEPT !.active = FALSE], who, IvOver(who))
  /\ UNCHANGED IvOthers

\* a running ticker fires: the tick is buffered in its channel unless one is
IvTick(k) ==
  /\ k \in DOMAIN ival.tickers
  /\ ival.tickers[k].running /\ ival.tickers[k].tick = 0
  /\ ival' = [ival EXCEPT !.tickers[k].tick = 1]
  /\ UNCHANGED IvOthers

\* the goroutine g enters its select: iv.ticker.C is evaluated once, there
IvEnter(g) ==
  /\ g \in DOMAIN ival.gos /\ ival.gos[g].pc = "loop"
  /\ ival' = [ival EXCEPT !.gos[g] = [pc |-> "select", on |-> Len(ival.tickers)]]
  /\ UNCHANGED IvOthers

\* the select of g receives the tick of its channel and invokes the call function
IvTake(g) ==
  /\ g \in DOMAIN ival.gos /\ ival.gos[g].pc = "select"
  /\ ival.tickers[ival.gos[g].on].tick = 1
  /\ ival' = [ival EXCEPT !.tickers[ival.gos[g].on].tick = 0,
                          !.gos[g] = [pc |-> "call", on |-> 0],
                          !.again = @ \/ ival.falsed]
  /\ UNCHANGED IvOthers

\* the call function invoked by g returns
IvReturn(g, result) ==
  /\ g \in DOMAIN ival.gos /\ ival.gos[g].pc = "call"
  /\ ival' = IF result THEN [ival EXCEPT !.gos[g].pc = "loop"]
             ELSE [ival EXCEPT !.gos[g].pc = "returned", !.falsed = TRUE]
  /\ UNCHANGED IvOthers

\* after the false return: g reads iv.active, then sets callHasCancelled and calls
\* Stop
IvCancel(g) ==
  /\ g \in DOMAIN ival.gos /\ ival.gos[g].pc \in {"returned", "cancelling"}
  /\ ival' = IF ival.gos[g].pc = "returned"
             THEN [ival EXCEPT !.gos[g].pc = IF ival.active THEN "cancelling"
                                             ELSE "exited"]
             ELSE [ival EXCEPT !.callHasCancelled = TRUE, !.gos[g].pc = "stop"]
  /\ UNCHANGED IvOthers

\* the select of g receives what the Stop of who sends on cancelChan: g ends and
\* that Stop goes on
IvReceive(g, who) ==
  /\ g \in DOMAIN ival.gos /\ ival.gos[g].pc = "select"
  /\ IvWho(who) /\ who # g /\ IvPc(who) = "send"
  /\ ival' = IvAt([ival EXCEPT !.gos[g] = [pc |-> "exited", on |-> 0]], who, "reset")
  /\ UNCHANGED IvOthers

InitIV ==
  /\ NewConcurrentMap(MaxShards) /\ ThreadsInit /\ HashIdle /\ LogIdle /\ CbIdle
  /\ UtilIdle

\* SpecIV: Interval, then IvCalls - 1 more calls of Start and Stop
NextIV ==
  \/ \E runImmediately \in BOOLEAN : IvStart(runImmediately)
  \/ IvStartStep
  \/ \E result \in BOOLEAN : IvImmediate(result)
  \/ IvStop
  \/ \E who \in 0..IvCalls : IvStopStep(who)
  \/ \E k \in 1..IvCalls : IvTick(k)
  \/ \E g \in 1..IvCalls : IvEnter(g)
  \/ \E g \in 1..IvCalls : IvTake(g)
  \/ \E g \in 1..IvCalls, result \in BOOLEAN : IvReturn(g, result)
  \/ \E g \in 1..IvCalls : IvCancel(g)
  \/ \E g \in 1..IvCalls, who \in 0..IvCalls : IvReceive(g, who)

SpecIV == InitIV /\ [][NextIV]_vars

\* ============================================================ RateLimiter
RlRates == 0..MaxRate
RlSizes == 0..MaxBucket
RlOthers == <<oldVars, emitter, memo, retry, mapred, ival, cond, pager>>

\* mutant of min: the second argument, the bucket is not capped
Uncapped(a, b) == b

min(a, b) == IF a < b THEN a ELSE b

\* refill(now): the tokens after it
refill(rl, at) == min(rl.bucketSize, rl.tokens + (at - rl.lastRefill) * rl.rate)

\* AllowN(n) under rl.mu: refill at time.Now(), then take n tokens if there are n
AllowN(n) ==
  /\ limiter.calls < RlCalls
  /\ LET tokens == refill(limiter, limiter.now)
     IN limiter' = [limiter EXCEPT
                      !.calls = @ + 1, !.n = n, !.lastRefill = limiter.now,
                      !.tokens = IF tokens >= n THEN tokens - n ELSE tokens,
                      !.ret = tokens >= n]
  /\ UNCHANGED RlOthers

\* the clock advances
RlTick ==
  /\ limiter.now < RlTime
  /\ limiter' = [limiter EXCEPT !.now = @ + 1]
  /\ UNCHANGED RlOthers

InitRL ==
  /\ NewConcurrentMap(MaxShards) /\ ThreadsInit /\ HashIdle /\ LogIdle /\ CbIdle
  /\ EeIdle /\ MzIdle /\ RtIdle /\ MrIdle /\ IvIdle /\ CeIdle /\ PgIdle
  /\ FsmIdle /\ RsmIdle
  /\ \E rate \in RlRates, bucketSize \in RlSizes :
       limiter = NewRateLimiter(rate, bucketSize, 0)

\* SpecRL: RlCalls calls of AllowN with n up to MaxBucket + 1, the clock up to RlTime
NextRL ==
  \/ \E n \in 0..(MaxBucket + 1) : AllowN(n)
  \/ RlTick

SpecRL == InitRL /\ [][NextRL]_vars

\* =================================================== ConditionalExecution
CeOthers == <<oldVars, emitter, memo, retry, mapred, ival, limiter, pager>>

\* If(condition) and ElseIf(condition)
CeIf(condition) ==
  /\ Len(cond.conditions) < MaxConds
  /\ cond' = [cond EXCEPT !.conditions = Append(@, condition), !.ran = <<>>,
                          !.mode = "none"]
  /\ UNCHANGED CeOthers

\* Then(action)
CeThen ==
  /\ Len(cond.actions) < MaxConds
  /\ cond' = [cond EXCEPT !.actions = Append(@, Len(@) + 1), !.ran = <<>>,
                          !.mode = "none"]
  /\ UNCHANGED CeOthers

\* Else(action)
CeElse ==
  /\ cond.elseAction = CeNoAction
  /\ cond' = [cond EXCEPT !.elseAction = CeElseAction, !.ran = <<>>, !.mode = "none"]
  /\ UNCHANGED CeOthers

\* if ce.elseAction != nil { ce.elseAction() }
CeRunElse(ce) == IF ce.elseAction # CeNoAction THEN <<ce.elseAction>> ELSE <<>>

\* if i < len(ce.actions) { ce.actions[i]() }, i counted from 1
CeRunAction(ce, i) == IF i <= Len(ce.actions) THEN <<ce.actions[i]>> ELSE <<>>

\* Execute's loop from condition i on: the actions it runs
RECURSIVE CeExecute(_, _)
CeExecute(ce, i) ==
  IF i > Len(ce.conditions) THEN CeRunElse(ce)
  ELSE IF ce.conditions[i] THEN CeRunAction(ce, i)
  ELSE CeExecute(ce, i + 1)

\* ExecuteWithFallthrough's loop from condition i on: the actions it runs
RECURSIVE CeExecuteWithFallthrough(_, _)
CeExecuteWithFallthrough(ce, i) ==
  IF i > Len(ce.conditions) THEN CeRunElse(ce)
  ELSE IF ce.conditions[i] THEN CeRunAction(ce, i) \o CeExecuteWithFallthrough(ce, i + 1)
  ELSE <<>>

\* Execute()
Execute_ ==
  /\ cond' = [cond EXCEPT !.ran = CeExecute(cond, 1), !.mode = "Execute"]
  /\ UNCHANGED CeOthers

\* ExecuteWithFallthrough()
ExecuteWithFallthrough ==
  /\ cond' = [cond EXCEPT !.ran = CeExecuteWithFallthrough(cond, 1),
                          !.mode = "ExecuteWithFallthrough"]
  /\ UNCHANGED CeOthers

InitCE ==
  /\ NewConcurrentMap(MaxShards) /\ ThreadsInit /\ HashIdle /\ LogIdle /\ CbIdle
  /\ UtilIdle

\* SpecCE: chains of up to MaxConds conditions and actions, executed at any point
NextCE ==
  \/ \E condition \in BOOLEAN : CeIf(condition)
  \/ CeThen
  \/ CeElse
  \/ Execute_
  \/ ExecuteWithFallthrough

SpecCE == InitCE /\ [][NextCE]_vars

\* ========================================================= PaginationInfo
PgPages == (0 - 1)..(MaxItems + 1)
PgPerPage == {0 - 1, 0, 1, 2}
PgItems == (0 - 3)..MaxItems
PgShown == (0 - 3)..MaxShown
PgOthers == <<oldVars, emitter, memo, retry, mapred, ival, limiter, cond>>

\* int(math.Ceil(float64(totalItems) / float64(perPage))) for perPage >= 1
PgCeil(totalItems, perPage) ==
  IF totalItems >= 0 THEN (totalItems + perPage - 1) \div perPage
  ELSE 0 - ((0 - totalItems) \div perPage)

\* NewPaginationInfo(currentPage, perPage, totalItems); a nil page pointer is 0
NewPaginationInfo(currentPage, perPage, totalItems) ==
  LET cp1 == IF currentPage < 1 THEN 1 ELSE currentPage
      pp == IF perPage < 1 THEN 10 ELSE perPage
      totalPages == PgCeil(totalItems, pp)
      cp == IF cp1 > totalPages THEN totalPages ELSE cp1
      firstItem == (cp - 1) * pp + 1
      lastItem == IF firstItem + pp - 1 > totalItems THEN totalItems
                  ELSE firstItem + pp - 1
  IN [CurrentPage |-> cp, PerPage |-> pp, TotalItems |-> totalItems,
      TotalPages |-> totalPages, FirstItem |-> firstItem, LastItem |-> lastItem,
      FirstPage |-> 1, LastPage |-> totalPages,
      NextPage |-> IF cp < totalPages THEN cp + 1 ELSE 0,
      PreviousPage |-> IF cp > 1 THEN cp - 1 ELSE 0]

\* Go's a / b on int for b > 0: the quotient truncated toward zero
PgQuo(a, b) == IF a >= 0 THEN a \div b ELSE 0 - ((0 - a) \div b)

\* pages := make([]int, n), a runtime panic for n < 0, and pages[i] = first + i
PgMake(n, first) ==
  IF n < 0 THEN [pages |-> <<>>, panicked |-> TRUE]
  ELSE [pages |-> [i \in 1..n |-> first + i - 1], panicked |-> FALSE]

\* p.PageNumbers(max): the slice returned, or the panic
PageNumbers(p, max) ==
  IF max >= p.TotalPages THEN PgMake(p.TotalPages, 1)
  ELSE LET half == PgQuo(max, 2)
           start0 == p.CurrentPage - half
           end0 == p.CurrentPage + half
           start1 == IF start0 < 1 THEN 1 ELSE start0
           end1 == IF start0 < 1 THEN max ELSE end0
           end == IF end1 > p.TotalPages THEN p.TotalPages ELSE end1
           start2 == IF end1 > p.TotalPages THEN p.TotalPages - max + 1 ELSE start1
           start == IF end1 > p.TotalPages /\ start2 < 1 THEN 1 ELSE start2
       IN PgMake(end - start + 1, start)

\* a PaginationInfo is built
PgNew(currentPage, perPage, totalItems) ==
  /\ pager' = [info |-> NewPaginationInfo(currentPage, perPage, totalItems),
               max |-> 0, pages |-> <<>>, panicked |-> FALSE]
  /\ UNCHANGED PgOthers

\* PageNumbers(max) is called on it
PgPageNumbers(max) ==
  /\ pager.info # <<>>
  /\ pager' = [pager EXCEPT !.max = max,
                            !.pages = PageNumbers(pager.info, max).pages,
                            !.panicked = PageNumbers(pager.info, max).panicked]
  /\ UNCHANGED PgOthers

InitPG ==
  /\ NewConcurrentMap(MaxShards) /\ ThreadsInit /\ HashIdle /\ LogIdle /\ CbIdle
  /\ UtilIdle

\* SpecPG: up to MaxItems items, PageNumbers of up to MaxShown pages; the
\* arguments include values below 1
NextPG ==
  \/ \E currentPage \in PgPages, perPage \in PgPerPage, totalItems \in PgItems :
       PgNew(currentPage, perPage, totalItems)
  \/ \E max \in PgShown : PgPageNumbers(max)

SpecPG == InitPG /\ [][NextPG]_vars

\* ------------------------------------------------------------------
\* StatesMan, the state machine with event data (flat variant): states with
\* entry and exit actions, transitions tried in insertion order, timed
\* transitions, hooks, and the Run loop that takes the events from the
\* EventChannel.  An SMAction is known by a number; a call of it is written to
\* ran together with the CurrentState the action can read at that moment.
\* Every method and every timer callback works under sm.mu, so each is one step.
FsmOthers == <<mapVars, hashVars, logVars, cbVars, emitter, memo, retry, mapred, ival,
               limiter, cond, pager, regional>>

FsmStateIds == {"A", "B"}
FsmEvents == {"e", "f"}
\* the Data of an event is nil (<<>>) or the one key "go" set to true;
\* an SMCondition: nil, or the function that returns context["go"] == true
FsmConditions == {"nil", "go"}

\* action(context): the call is recorded
CallAction(m, kind, action) ==
  [m EXCEPT !.ran = Append(@, [kind |-> kind, action |-> action,
                               seen |-> m.CurrentState])]

\* for _, action := range actions { action(context) }
RECURSIVE CallAll(_, _, _)
CallAll(m, kind, actions) ==
  IF actions = <<>> THEN m
  ELSE CallAll(CallAction(m, kind, Head(actions)), kind, Tail(actions))

\* sm.States[id]: the nil pointer when the map has no such key
NilState == [nil |-> TRUE]
IsNil(st) == "nil" \in DOMAIN st
StateAt(m, id) == IF id \in DOMAIN m.States THEN m.States[id] ELSE NilState

\* a nil pointer is dereferenced, a nil map is written or an empty slice is
\* indexed: the goroutine panics and the program ends
Panic(m) == [m EXCEPT !.panicked = TRUE]

\* sm.States[id] = &State{...}: the assignment panics when sm.States is the nil map
AddState(m, id, entryActions, exitActions) ==
  IF m.nilStates THEN Panic(m)
  ELSE [m EXCEPT !.States = Put(@, id, [ID |-> id, EntryActions |-> entryActions,
                                        ExitActions |-> exitActions])]

\* an unknown id is refused with an error
SetInitialState(m, id) ==
  IF id \notin DOMAIN m.States THEN m ELSE [m EXCEPT !.CurrentState = id]

\* for k, v := range eventData.Data { context[k] = v }
MergeData(context, data) ==
  [k \in (DOMAIN context) \cup (DOMAIN data) |->
     IF k \in DOMAIN data THEN data[k] ELSE context[k]]

\* t.Condition == nil || t.Condition(context)
ConditionHolds(condition, context) ==
  \/ condition = "nil"
  \/ condition = "go" /\ "go" \in DOMAIN context /\ context["go"]

\* the loop over sm.Transitions from position i on: the position of the
\* transition that is executed (the loop breaks there), 0 when the loop ends
RECURSIVE FirstTransition(_, _, _, _, _)
FirstTransition(ts, i, current, event, context) ==
  IF i > Len(ts) THEN 0
  ELSE IF /\ (ts[i].From = current \/ ts[i].From = AnyState)
          /\ ts[i].Event = event
          /\ ConditionHolds(ts[i].Condition, context)
       THEN i
       ELSE FirstTransition(ts, i + 1, current, event, context)

\* every timer is stopped and forgotten; the timed transitions leaving stateID
\* get a new one.  Stopping a timer that has expired does not recall its callback.
resetTimedTransitions(m, stateID) ==
  [m EXCEPT !.TimedTransitions =
     [i \in DOMAIN @ |->
        [@[i] EXCEPT !.timer = IF m.TimedTransitions[i].From = stateID
                               THEN "armed" ELSE "nil"]]]

\* a timed transition leaving the current state gets a timer if it has none
checkTimedTransitions(m) ==
  [m EXCEPT !.TimedTransitions =
     [i \in DOMAIN @ |->
        [@[i] EXCEPT !.timer = IF m.TimedTransitions[i].From = m.CurrentState /\ @ = "nil"
                               THEN "armed" ELSE @]]]

\* mutant of executeTransition: CurrentState is updated before the exit actions
executeTransitionEarly(m, from, to, actions) ==
  LET s1 == CallAll(m, "pre", m.PreHooks)
  IN IF IsNil(to) THEN Panic(s1)
     ELSE LET s2 == [s1 EXCEPT !.CurrentState = to.ID]
          IN IF IsNil(from) THEN Panic(s2)
             ELSE LET s3 == CallAll(s2, "exit", from.ExitActions)
                      s4 == CallAll(s3, "action", actions)
                      s5 == CallAll(s4, "entry", to.EntryActions)
                      s6 == CallAll(s5, "post", m.PostHooks)
                  IN resetTimedTransitions(s6, to.ID)

\* from.ExitActions panics when from is nil (after the pre-hooks), to.ID when to
\* is nil (after the exit actions and the transition's actions)
executeTransition(m, from, to, actions) ==
  LET s1 == CallAll(m, "pre", m.PreHooks)
  IN IF IsNil(from) THEN Panic(s1)
     ELSE LET s2 == CallAll(s1, "exit", from.ExitActions)
              s3 == CallAll(s2, "action", actions)
          IN IF IsNil(to) THEN Panic(s3)
             ELSE LET s4 == [s3 EXCEPT !.CurrentState = to.ID]
                      s5 == CallAll(s4, "entry", to.EntryActions)
                      s6 == CallAll(s5, "post", m.PostHooks)
                  IN resetTimedTransitions(s6, to.ID)

\* mutant of handleEvent: no break, every matching transition of the list is
\* executed, each against the state the one before it has left
RECURSIVE EveryTransition(_, _, _)
EveryTransition(m, i, event) ==
  IF i > Len(m.Transitions) \/ m.panicked THEN m
  ELSE LET t == m.Transitions[i]
       IN IF /\ (t.From = m.CurrentState \/ t.From = AnyState)
             /\ t.Event = event
             /\ ConditionHolds(t.Condition, m.Context)
          THEN EveryTransition(executeTransition(m, StateAt(m, m.CurrentState),
                                                 StateAt(m, t.To), t.Actions),
                               i + 1, event)
          ELSE EveryTransition(m, i + 1, event)
handleEventNoBreak(m, eventData) ==
  LET done == EveryTransition([m EXCEPT !.Context = MergeData(@, eventData.Data)], 1,
                              eventData.EventID)
  IN IF done.panicked THEN done ELSE checkTimedTransitions(done)

handleEvent(m, eventData) ==
  LET merged == [m EXCEPT !.Context = MergeData(@, eventData.Data)]
      i == FirstTransition(merged.Transitions, 1, merged.CurrentState,
                           eventData.EventID, merged.Context)
      done == IF i = 0 THEN merged
              ELSE executeTransition(merged, StateAt(merged, merged.CurrentState),
                                     StateAt(merged, merged.Transitions[i].To),
                                     merged.Transitions[i].Actions)
  IN IF done.panicked THEN done ELSE checkTimedTransitions(done)

\* AddTransition(from, to, event, condition, actions...)
AddTransition(m, from, to, event, condition, actions) ==
  [m EXCEPT !.Transitions = Append(@, [From |-> from, To |-> to, Event |-> event,
                                       Condition |-> condition, Actions |-> actions])]

\* AddTimedTransition(from, to, duration, actions...)
AddTimedTransition(m, from, to, actions) ==
  [m EXCEPT !.TimedTransitions = Append(@, [From |-> from, To |-> to,
                                            Actions |-> actions, timer |-> "nil"])]

\* AddPreHook(hook)
AddPreHook(m, hook) == [m EXCEPT !.PreHooks = Append(@, hook)]

\* AddPostHook(hook)
AddPostHook(m, hook) == [m EXCEPT !.PostHooks = Append(@, hook)]

\* a JSON text as json.Unmarshal reads it: syntax is "bad" for a text that is not
\* JSON; States gives for every key of the object "States" the "ID" of its value,
\* Transitions the elements of the array "Transitions", each with the kind of
\* JSON value it has for "Condition" ("absent", "null" or "string").  No text
\* has a value for EntryActions, ExitActions or Actions.
\* The texts imported in SpecFSM: one that is not JSON, one with a string for a
\* Condition, one with other states than the machine has, one with the machine's
\* states and a transition from any state
FsmDocs ==
  {[syntax |-> "bad", States |-> <<>>, Transitions |-> <<>>],
   [syntax |-> "ok", States |-> ("A" :> "A"),
    Transitions |-> <<[From |-> "A", To |-> "B", Event |-> "e",
                       Condition |-> "string"]>>],
   [syntax |-> "ok", States |-> ("C" :> "C"),
    Transitions |-> <<[From |-> "C", To |-> "C", Event |-> "e", Condition |-> "absent"]>>],
   [syntax |-> "ok", States |-> ("A" :> "A" @@ "B" :> "B"),
    Transitions |-> <<[From |-> AnyState, To |-> "B", Event |-> "e",
                       Condition |-> "null"]>>]}
\* the texts imported in SpecHooks: the empty object, and one whose state under
\* the key "B" has no "ID".  A text whose States is <<>> has no "States".
HookDocs ==
  {[syntax |-> "ok", States |-> <<>>, Transitions |-> <<>>],
   [syntax |-> "ok", States |-> ("A" :> "A" @@ "B" :> ""),
    Transitions |-> <<[From |-> "A", To |-> "B", Event |-> "e",
                       Condition |-> "absent"]>>]}

\* json.Unmarshal([]byte(jsonStr), &imp): a syntax error, or a JSON value other
\* than null for the func-typed field Condition, is an error; a field without a
\* value keeps its zero value: imp.States stays the nil map for a text without
\* "States"
Unmarshal(doc) ==
  [err |-> \/ doc.syntax = "bad"
           \/ \E i \in DOMAIN doc.Transitions : doc.Transitions[i].Condition = "string",
   nilStates |-> doc.States = <<>>,
   States |-> [id \in DOMAIN doc.States |->
                 [ID |-> doc.States[id], EntryActions |-> <<>>, ExitActions |-> <<>>]],
   Transitions |-> [i \in DOMAIN doc.Transitions |->
                      [From |-> doc.Transitions[i].From, To |-> doc.Transitions[i].To,
                       Event |-> doc.Transitions[i].Event, Condition |-> "nil",
                       Actions |-> <<>>]]]

\* Import(jsonStr): on an error nothing is written; else sm.States and
\* sm.Transitions are replaced (CurrentState, the hooks and the timed transitions
\* stay)
Import(m, doc) ==
  LET imp == Unmarshal(doc)
  IN IF imp.err THEN m
     ELSE [m EXCEPT !.States = imp.States, !.nilStates = imp.nilStates,
                    !.Transitions = imp.Transitions]

\* the machine is set up before the first event is triggered
FsmSetup ==
  /\ machine.sent = <<>> /\ machine.handled = <<>> /\ machine.fired = <<>>
  /\ ~machine.panicked

\* a call of Import: MaxImports texts are accepted, any number refused
CallImport(doc) ==
  /\ FsmSetup
  /\ Unmarshal(doc).err \/ Len(machine.imported) < MaxImports
  /\ machine' = [Import(machine, doc) EXCEPT
                   !.imported = IF Unmarshal(doc).err THEN @ ELSE Append(@, doc),
                   !.importErr = Unmarshal(doc).err]
  /\ UNCHANGED FsmOthers

\* a call of AddState("B", ...) with the entry actions 4 and 5, as in FsmStart
CallAddState ==
  /\ FsmSetup
  /\ machine' = AddState(machine, "B", <<4, 5>>, <<>>)
  /\ UNCHANGED FsmOthers

\* the actions handed to the n-th AddTransition: none for event "f"
FsmActions(n, event) == IF event = "f" THEN <<>> ELSE <<2 * n - 1, 2 * n>>

CallAddTransition(tr) ==
  /\ FsmSetup /\ Len(machine.Transitions) < MaxTransitions
  /\ machine' = AddTransition(machine, tr.From, tr.To, tr.Event, tr.Condition,
                              FsmActions(Len(machine.Transitions) + 1, tr.Event))
  /\ UNCHANGED FsmOthers

CallAddTimedTransition(from, to) ==
  /\ FsmSetup /\ Len(machine.TimedTransitions) < MaxTimed
  /\ machine' = AddTimedTransition(machine, from, to, <<9>>)
  /\ UNCHANGED FsmOthers

CallAddPreHook ==
  /\ FsmSetup /\ Len(machine.PreHooks) < MaxHooks
  /\ machine' = AddPreHook(machine, Len(machine.PreHooks) + 1)
  /\ UNCHANGED FsmOthers

CallAddPostHook ==
  /\ FsmSetup /\ Len(machine.PostHooks) < MaxHooks
  /\ machine' = AddPostHook(machine, Len(machine.PostHooks) + 1)
  /\ UNCHANGED FsmOthers

\* TriggerEvent(event, data): the send on the EventChannel, which waits while
\* the channel holds EventCap events
TriggerEvent(event, data) ==
  /\ ~machine.panicked
  /\ Len(machine.sent) < FsmCalls
  /\ Len(machine.EventChannel) < EventCap
  /\ machine' = [machine EXCEPT
                   !.EventChannel = Append(@, [EventID |-> event, Data |-> data]),
                   !.sent = Append(@, [EventID |-> event, Data |-> data])]
  /\ UNCHANGED FsmOthers

\* Run: for eventData := range sm.EventChannel
RunReceive ==
  /\ ~machine.panicked
  /\ machine.taken = <<>> /\ machine.EventChannel # <<>>
  /\ machine' = [machine EXCEPT !.taken = <<Head(machine.EventChannel)>>,
                                !.EventChannel = Tail(@)]
  /\ UNCHANGED FsmOthers

\* what a run of handleEvent or of a timer callback leaves in the history
Handled(src, eventData, before, after) ==
  [src |-> src, event |-> eventData, before |-> before.CurrentState,
   context |-> after.Context, ran |-> after.ran, after |-> after.CurrentState,
   panicked |-> after.panicked]

\* Run: sm.mu.Lock(); sm.handleEvent(eventData); sm.mu.Unlock()
RunHandle ==
  /\ ~machine.panicked
  /\ machine.taken # <<>>
  /\ LET after == handleEvent(machine, machine.taken[1])
     IN machine' = [after EXCEPT
                      !.taken = <<>>, !.ran = <<>>,
                      !.handled = Append(@, Handled("event", machine.taken[1],
                                                    machine, after))]
  /\ UNCHANGED FsmOthers

\* the timer of timed transition i expires: its callback starts and asks for the lock
TimerExpire(i) ==
  /\ ~machine.panicked
  /\ i \in DOMAIN machine.TimedTransitions
  /\ machine.TimedTransitions[i].timer = "armed"
  /\ Len(machine.handled) + Len(machine.fired) < FsmCalls + MaxFired
  /\ machine' = [machine EXCEPT !.TimedTransitions[i].timer = "expired",
                                !.fired = Append(@, i)]
  /\ UNCHANGED FsmOthers

\* the callback that waits at position k gets the lock:
\* sm.executeTransition(sm.States[tt.From], sm.States[tt.To], tt.Actions)
TimerRun(k) ==
  /\ ~machine.panicked
  /\ k \in DOMAIN machine.fired
  /\ LET tt == machine.TimedTransitions[machine.fired[k]]
         after == executeTransition(machine, StateAt(machine, tt.From),
                                    StateAt(machine, tt.To), tt.Actions)
     IN machine' = [after EXCEPT
                      !.fired = SubSeq(@, 1, k - 1) \o SubSeq(@, k + 1, Len(@)),
                      !.ran = <<>>,
                      !.handled = Append(@, Handled("timer", tt, machine, after))]
  /\ UNCHANGED FsmOthers

\* NewStatesMan, AddState("A", ...), AddState("B", ...), SetInitialState("A"): A has
\* the entry action 1 and the exit actions 2 and 3, B the entry actions 4 and 5
FsmStart ==
  SetInitialState(AddState(AddState(NewStateMachine, "A", <<1>>, <<2, 3>>),
                           "B", <<4, 5>>, <<>>), "A")

FsmRest ==
  /\ NewConcurrentMap(MaxShards) /\ ThreadsInit /\ HashIdle /\ LogIdle /\ CbIdle
  /\ EeIdle /\ MzIdle /\ RtIdle /\ MrIdle /\ IvIdle /\ RlIdle /\ CeIdle /\ PgIdle
  /\ RsmIdle

\* then AddPreHook and AddPostHook, one hook each
InitFSM == FsmRest /\ machine = AddPostHook(AddPreHook(FsmStart, 1), 1)

\* the transitions added in SpecFSM: every From, both events, with and without
\* condition, leaving the state
FsmTransitions ==
  {tr \in [From : FsmStateIds \cup {AnyState}, To : FsmStateIds, Event : FsmEvents,
           Condition : FsmConditions] :
     tr.To = (IF tr.From = "A" THEN "B" ELSE "A")}
\* the events triggered: "e" with and without data, "f" without
FsmTriggers == {<<"e", <<>>>>, <<"e", [go |-> TRUE]>>, <<"f", <<>>>>}

\* SpecFSM: up to MaxTransitions transitions and MaxImports calls of Import, then
\* FsmCalls events
NextFSM ==
  \/ \E tr \in FsmTransitions : CallAddTransition(tr)
  \/ \E doc \in FsmDocs : CallImport(doc)
  \/ \E tg \in FsmTriggers : TriggerEvent(tg[1], tg[2])
  \/ RunReceive
  \/ RunHandle

SpecFSM == InitFSM /\ [][NextFSM]_vars

InitHooks == FsmRest /\ machine = FsmStart

\* the transitions added in SpecHooks: A to B on "e", and back from any state on "f"
HookTransitions ==
  {[From |-> "A", To |-> "B", Event |-> "e", Condition |-> "nil"],
   [From |-> AnyState, To |-> "A", Event |-> "f", Condition |-> "nil"]}

\* SpecHooks: up to MaxTransitions transitions, MaxTimed timed transitions and
\* MaxHooks hooks of each kind, then FsmCalls events and the timers
NextHooks ==
  \/ \E tr \in HookTransitions : CallAddTransition(tr)
  \/ \E doc \in HookDocs : CallImport(doc)
  \/ CallAddState
  \/ CallAddTimedTransition("A", "B")
  \/ CallAddPreHook
  \/ CallAddPostHook
  \/ \E event \in FsmEvents : TriggerEvent(event, <<>>)
  \/ RunReceive
  \/ RunHandle
  \/ \E i \in 1..MaxTimed : TimerExpire(i)
  \/ \E k \in 1..(FsmCalls + MaxFired) : TimerRun(k)

SpecHooks == InitHooks /\ [][NextHooks]_vars

\* ------------------------------------------------------------------
\* StatesMan, the state machine with regions (the variant of the README):
\* TriggerEvent(event) without data, the current state kept in Regions[0].
\* No hook and no timed transition is added and the states have no actions, so
\* the loops over them in executeTransition, checkTimedTransitions and
\* resetTimedTransitions run over empty slices.  Regions[0] of the code is
\* Regions[1] here.
RegionOthers == <<mapVars, hashVars, logVars, cbVars, emitter, memo, retry, mapred, ival,
                  limiter, cond, pager, machine>>

RegionStateIds == {"Red", "Green"}
RegionEvents == {"Next", "Back"}
\* an SMCondition: nil, or a function that returns always true, or always false
RegionConditions == {"nil", "true", "false"}

\* sm.States[id] = &State{...}: the assignment panics when sm.States is the nil map
RegionAddState(m, id) ==
  IF m.nilStates THEN Panic(m)
  ELSE [m EXCEPT !.States = Put(@, id, [ID |-> id])]

\* an unknown id is refused with an error; else sm.Regions[0].InitialState = id;
\* sm.Regions[0].CurrentState = id, and sm.Regions[0] panics when sm.Regions is empty
RegionSetInitialState(m, id) ==
  IF id \notin DOMAIN m.States THEN m
  ELSE IF m.Regions = <<>> THEN Panic(m)
  ELSE [m EXCEPT !.Regions[1].InitialState = id, !.Regions[1].CurrentState = id]

\* AddTransition(from, to, event, condition)
RegionAddTransition(m, from, to, event, condition) ==
  [m EXCEPT !.Transitions = Append(@, [From |-> from, To |-> to, Event |-> event,
                                       Condition |-> condition])]

\* return sm.Regions[0].CurrentState
GetCurrentState(m) == m.Regions[1].CurrentState

\* executeTransition(region, from, to, actions): region.CurrentState = to.ID, on
\* the Region that the pointer names
RegionExecuteTransition(region, to) == [region EXCEPT !.CurrentState = to.ID]

\* the loop over sm.Transitions from position i on for one region, with break:
\* the region after it.  currentState.ID panics when sm.States has no state for
\* region.CurrentState, to.ID when it has none for the transition's To.
RECURSIVE RegionTransitions(_, _, _, _)
RegionTransitions(m, i, region, event) ==
  IF i > Len(m.Transitions) THEN [region |-> region, panicked |-> FALSE]
  ELSE LET t == m.Transitions[i]
           currentState == StateAt(m, region.CurrentState)
       IN IF IsNil(currentState) THEN [region |-> region, panicked |-> TRUE]
          ELSE IF /\ t.From = currentState.ID
                  /\ t.Event = event
                  /\ (t.Condition = "nil" \/ t.Condition = "true")
               THEN IF IsNil(StateAt(m, t.To))
                    THEN [region |-> region, panicked |-> TRUE]
                    ELSE [region |-> RegionExecuteTransition(region, StateAt(m, t.To)),
                          panicked |-> FALSE]
               ELSE RegionTransitions(m, i + 1, region, event)

\* handleEvent(event): `for _, region := range sm.Regions` hands every iteration
\* a copy of the Region, and executeTransition(&region, ...) assigns to that copy;
\* sm.Regions is not written.  copies keeps the loop's copies as they were when
\* their iteration ended (history: the program drops them).
RECURSIVE RegionCopies(_, _, _, _)
RegionCopies(m, r, event, copies) ==
  IF r > Len(m.Regions) THEN [copies |-> copies, panicked |-> FALSE]
  ELSE LET done == RegionTransitions(m, 1, m.Regions[r], event)
       IN IF done.panicked THEN [copies |-> Append(copies, done.region), panicked |-> TRUE]
          ELSE RegionCopies(m, r + 1, event, Append(copies, done.region))
RegionHandleEvent(m, event) ==
  LET done == RegionCopies(m, 1, event, <<>>)
  IN [m EXCEPT !.copies = done.copies, !.panicked = done.panicked]

\* JSON texts as json.Unmarshal reads them (see FsmDocs), with the elements of
\* the array "Regions"; a text whose Regions is <<>> has no "Regions"
RegionDocs ==
  {[syntax |-> "bad", States |-> <<>>, Transitions |-> <<>>, Regions |-> <<>>],
   [syntax |-> "ok", States |-> <<>>, Transitions |-> <<>>, Regions |-> <<>>],
   [syntax |-> "ok", States |-> ("Red" :> "Red"), Transitions |-> <<>>, Regions |-> <<>>],
   [syntax |-> "ok", States |-> ("Blue" :> "Blue"), Transitions |-> <<>>,
    Regions |-> <<[ID |-> "main", InitialState |-> "Blue", CurrentState |-> "Blue"]>>],
   [syntax |-> "ok", States |-> ("Red" :> "Red" @@ "Green" :> "Green"),
    Transitions |-> <<[From |-> "Green", To |-> "Red", Event |-> "Back",
                       Condition |-> "absent"]>>,
    Regions |-> <<[ID |-> "main", InitialState |-> "Red", CurrentState |-> "Green"]>>],
   [syntax |-> "ok", States |-> ("Blue" :> "Blue"),
    Transitions |-> <<[From |-> "Blue", To |-> "Red", Event |-> "Next",
                       Condition |-> "null"]>>,
    Regions |-> <<[ID |-> "main", InitialState |-> "Red", CurrentState |-> "Red"]>>],
   [syntax |-> "ok", States |-> ("Red" :> "Red"),
    Transitions |-> <<[From |-> "Red", To |-> "Green", Event |-> "Next",
                       Condition |-> "string"]>>,
    Regions |-> <<[ID |-> "main", InitialState |-> "Red", CurrentState |-> "Red"]>>]}

\* json.Unmarshal([]byte(jsonStr), &imp) of the variant with regions
RegionUnmarshal(doc) ==
  [err |-> \/ doc.syntax = "bad"
           \/ \E i \in DOMAIN doc.Transitions : doc.Transitions[i].Condition = "string",
   nilStates |-> doc.States = <<>>,
   States |-> [id \in DOMAIN doc.States |-> [ID |-> doc.States[id]]],
   Transitions |-> [i \in DOMAIN doc.Transitions |->
                      [From |-> doc.Transitions[i].From, To |-> doc.Transitions[i].To,
                       Event |-> doc.Transitions[i].Event, Condition |-> "nil"]],
   Regions |-> doc.Regions]

\* Import(jsonStr): on an error nothing is written; else sm.States,
\* sm.Transitions and sm.Regions are replaced
RegionImport(m, doc) ==
  LET imp == RegionUnmarshal(doc)
  IN IF imp.err THEN m
     ELSE [m EXCEPT !.States = imp.States, !.nilStates = imp.nilStates,
                    !.Transitions = imp.Transitions, !.Regions = imp.Regions]

\* the machine is set up before the first event is triggered
RegionSetup == regional.sent = 0 /\ ~regional.panicked

\* a call of Import: MaxImports texts are accepted, any number refused
CallRegionImport(doc) ==
  /\ RegionSetup
  /\ RegionUnmarshal(doc).err \/ Len(regional.imported) < MaxImports
  /\ regional' = [RegionImport(regional, doc) EXCEPT
                    !.imported = IF RegionUnmarshal(doc).err THEN @ ELSE Append(@, doc),
                    !.importErr = RegionUnmarshal(doc).err]
  /\ UNCHANGED RegionOthers

CallRegionAddState(id) ==
  /\ RegionSetup
  /\ regional' = RegionAddState(regional, id)
  /\ UNCHANGED RegionOthers

CallRegionSetInitialState(id) ==
  /\ RegionSetup
  /\ regional' = RegionSetInitialState(regional, id)
  /\ UNCHANGED RegionOthers

CallRegionAddTransition(from, to, event, condition) ==
  /\ RegionSetup /\ Len(regional.Transitions) < RegionTransitionsMax
  /\ regional' = RegionAddTransition(regional, from, to, event, condition)
  /\ UNCHANGED RegionOthers

\* TriggerEvent(event): the send on the EventChannel
RegionTriggerEvent(event) ==
  /\ ~regional.panicked
  /\ regional.sent < RegionCalls
  /\ Len(regional.EventChannel) < RegionEventCap
  /\ regional' = [regional EXCEPT !.EventChannel = Append(@, event), !.sent = @ + 1]
  /\ UNCHANGED RegionOthers

\* Run: for event := range sm.EventChannel
RegionRunReceive ==
  /\ ~regional.panicked
  /\ regional.taken = <<>> /\ regional.EventChannel # <<>>
  /\ regional' = [regional EXCEPT !.taken = <<Head(regional.EventChannel)>>,
                                  !.EventChannel = Tail(@)]
  /\ UNCHANGED RegionOthers

\* Run: sm.mu.Lock(); sm.handleEvent(event); sm.mu.Unlock(); before is the
\* CurrentState of every region when the event was taken up
RegionRunHandle ==
  /\ ~regional.panicked
  /\ regional.taken # <<>>
  /\ regional' = [RegionHandleEvent(regional, regional.taken[1]) EXCEPT
                    !.taken = <<>>,
                    !.handled = Append(@, [event |-> regional.taken[1],
                                           before |-> [r \in DOMAIN regional.Regions |->
                                                         regional.Regions[r].CurrentState]])]
  /\ UNCHANGED RegionOthers

\* a call of GetCurrentState(): got keeps its result and the number of events
\* handled before it; sm.Regions[0] panics when sm.Regions is empty
CallGetCurrentState ==
  /\ ~regional.panicked
  /\ regional.handled # <<>>
  /\ IF regional.Regions = <<>>
       THEN regional' = Panic(regional)
       ELSE /\ regional.got # <<[state |-> GetCurrentState(regional),
                                 after |-> Len(regional.handled)]>>
            /\ regional' = [regional EXCEPT
                              !.got = <<[state |-> GetCurrentState(regional),
                                         after |-> Len(regional.handled)]>>]
  /\ UNCHANGED RegionOthers

\* NewStatesMan, AddState("Red", ...), AddState("Green", ...), SetInitialState
InitRegion ==
  /\ NewConcurrentMap(MaxShards) /\ ThreadsInit /\ HashIdle /\ LogIdle /\ CbIdle
  /\ EeIdle /\ MzIdle /\ RtIdle /\ MrIdle /\ IvIdle /\ RlIdle /\ CeIdle /\ PgIdle
  /\ FsmIdle
  /\ \E id \in RegionStateIds :
       regional = RegionSetInitialState(
                    RegionAddState(RegionAddState(NewRegionMachine, "Red"), "Green"), id)

\* SpecRegion: up to RegionTransitionsMax transitions and MaxImports calls of
\* Import, then RegionCalls events
NextRegion ==
  \/ \E from \in RegionStateIds, to \in RegionStateIds, event \in RegionEvents,
        condition \in RegionConditions :
       CallRegionAddTransition(from, to, event, condition)
  \/ \E doc \in RegionDocs : CallRegionImport(doc)
  \/ \E id \in RegionStateIds : CallRegionAddState(id)
  \/ \E id \in RegionStateIds : CallRegionSetInitialState(id)
  \/ \E event \in RegionEvents : RegionTriggerEvent(event)
  \/ RegionRunReceive
  \/ RegionRunHandle
  \/ CallGetCurrentState

SpecRegion == InitRegion /\ [][NextRegion]_vars

\* the map of the concurrent specifications: MaxShards shards
Init == NewConcurrentMap(MaxShards) /\ ThreadsInit /\ HashIdle /\ LogIdle /\ CbIdle /\ UtilIdle

\* SpecLocks: NumThreads goroutines, every method, MaxCalls calls
NextLocks ==
  \E t \in Threads :
    \/ (calls < MaxCalls /\ CallKeyOpOneValue(t))
    \/ (calls < MaxCalls /\ CallScanOp(t))
    \/ RLock(t) \/ Lock(t) \/ LockGranted(t)
    \/ SetBody(t) \/ GetBody(t) \/ DeleteBody(t) \/ GetOrSetBody(t) \/ SetIfAbsentBody(t)
    \/ LenShard(t) \/ ClearShard(t) \/ CapShard(t) \/ KeysShard(t) \/ ValuesShard(t)
    \/ RangeCall(t) \/ RangeShardDone(t)

SpecLocks == Init /\ [][NextLocks]_vars

\* SpecKV: NumThreads goroutines, the methods on one key and Clear
NextKV ==
  \E t \in Threads :
    \/ (calls < MaxCalls /\ CallKeyOp(t))
    \/ (calls < MaxCalls /\ CallClear(t))
    \/ RLock(t) \/ Lock(t) \/ LockGranted(t)
    \/ SetBody(t) \/ GetBody(t) \/ DeleteBody(t) \/ GetOrSetBody(t) \/ SetIfAbsentBody(t)
    \/ ClearShard(t)

SpecKV == Init /\ [][NextKV]_vars

\* SpecRoundTrip: NumThreads goroutines, KvCalls calls of the methods on one key
\* and Clear, so that a call on another key comes between a Set and a Get; the
\* key of the last Set or Delete is recorded
InitRoundTrip ==
  /\ NewConcurrentMap(MaxShards) /\ NoCalls(Keys \cup {0}) /\ HashIdle /\ LogIdle
  /\ CbIdle /\ UtilIdle

NextRoundTrip ==
  \E t \in Threads :
    \/ (calls < KvCalls /\ CallKeyOp(t))
    \/ (calls < KvCalls /\ CallClear(t))
    \/ RLock(t) \/ Lock(t) \/ LockGranted(t)
    \/ SetBody(t) \/ GetBody(t) \/ DeleteBody(t) \/ GetOrSetBody(t) \/ SetIfAbsentBody(t)
    \/ ClearShard(t)

SpecRoundTrip == InitRoundTrip /\ [][NextRoundTrip]_vars

\* SpecSeq: one goroutine (no call overlaps another), every method, every shard count
InitSeq ==
  /\ (\E n \in ShardRequests : NewConcurrentMap(n)) /\ ThreadsInit /\ HashIdle
  /\ LogIdle /\ CbIdle /\ UtilIdle

NextSeq ==
  \E t \in {1} :
    \/ (calls < SeqCalls /\ CallKeyOp(t))
    \/ (calls < SeqCalls /\ CallScanOp(t))
    \/ RLock(t) \/ Lock(t)
    \/ SetBody(t) \/ GetBody(t) \/ DeleteBody(t) \/ GetOrSetBody(t) \/ SetIfAbsentBody(t)
    \/ LenShard(t) \/ ClearShard(t) \/ CapShard(t) \/ KeysShard(t) \/ ValuesShard(t)
    \/ RangeCall(t) \/ RangeShardDone(t)

SpecSeq == InitSeq /\ [][NextSeq]_vars

\* SpecLen: goroutine 1 calls Len once while the others Set and Delete
NextLen ==
  \E t \in Threads :
    \/ (t = 1 /\ op[t] = NoOp /\ calls < LenCalls /\ CallLen(t))
    \/ (t # 1 /\ calls < LenCalls /\ CallWrite(t))
    \/ RLock(t) \/ Lock(t) \/ LockGranted(t)
    \/ SetBody(t) \/ DeleteBody(t) \/ LenShard(t)

SpecLen == Init /\ [][NextLen]_vars

\* SpecSIA: every goroutine calls SetIfAbsent once, on an empty map
NextSIA ==
  \E t \in Threads :
    \/ (op[t] = NoOp /\ CallSetIfAbsent(t))
    \/ Lock(t) \/ SetIfAbsentBody(t)

SpecSIA == Init /\ [][NextSIA]_vars

\* SpecGOS: every goroutine calls GetOrSet once, on an empty map
NextGOS ==
  \E t \in Threads :
    \/ (op[t] = NoOp /\ CallGetOrSet(t))
    \/ Lock(t) \/ GetOrSetBody(t)

SpecGOS == Init /\ [][NextGOS]_vars

\* SpecClear: goroutine 1 calls Set, Clear, Len and Get, the others call Set
CallSet(t) == \E k \in Keys : Call(t, "Set", k, 7)
CallGet(t) == \E k \in Keys : Call(t, "Get", k, ZeroValue)

NextClear ==
  \E t \in Threads :
    \/ (calls < ClearCalls /\ CallSet(t))
    \/ (t = 1 /\ calls < ClearCalls /\ CallClear(t))
    \/ (t = 1 /\ calls < ClearCalls /\ CallLen(t))
    \/ (t = 1 /\ calls < ClearCalls /\ CallGet(t))
    \/ RLock(t) \/ Lock(t) \/ LockGranted(t)
    \/ SetBody(t) \/ GetBody(t) \/ LenShard(t) \/ ClearShard(t)

SpecClear == Init /\ [][NextClear]_vars

\* SpecHash: fnv32 on every key string of at most MaxKeyLen bytes
InitHash ==
  /\ NewConcurrentMap(MaxShards) /\ ThreadsInit
  /\ hIn \in KeyStrings /\ hPos = 0 /\ hAcc = <<OffsetHi, OffsetLo>>
  /\ LogIdle /\ CbIdle /\ UtilIdle

NextHash == FnvStep

SpecHash == InitHash /\ [][NextHash]_vars

\* ================================================================ claims
\* where key k is stored in the map its: the set of <<shard, value>>
Stored(its, k) == {<<i, its[i][k]>> : i \in {j \in DOMAIN its : Has(its[j], k)}}
StoredKeys == {k \in Keys : Stored(items, k) # {}}
\* goroutine t has returned from a call of method name
Returned(t, name) == pc[t] = "idle" /\ op[t].name = name
\* goroutine t takes the step that ends its call of method name
Returns(t, name) == pc[t] # "idle" /\ op[t].name = name /\ pc'[t] = "idle"

\* C1: once a Set(k, v) has taken effect and until a Delete(k), a Clear of k's
\* shard or another Set(k, v2) takes effect, every Get(k), from any goroutine and
\* whatever happened to other keys meanwhile, returns (v, true).
C1_RoundTrip ==
  [][\A t \in Threads :
       (Returns(t, "Get") /\ pinned[op[t].key] # <<>>)
         => ret'[t] = [val |-> pinned[op[t].key][1], ok |-> TRUE]]_vars

\* a Get returned (7, true) for a key that another goroutine had Set to 7, after
\* the goroutine of the Get had itself called Set or Delete on another key: of
\* the three calls the Set(k, 7) took effect first, the Set or Delete of the other
\* key next (it is the last one to have taken effect), then the Get
C1_Witness ==
  \E t \in Threads, u \in Threads :
    /\ t # u /\ calls = KvCalls
    /\ Returned(t, "Get") /\ ret[t] = [val |-> 7, ok |-> TRUE]
    /\ Returned(u, "Set") /\ op[u].key = op[t].key /\ op[u].val = 7
    /\ pinned[op[t].key] = <<7>>
    /\ pinned[0] # <<>> /\ pinned[0][1] # op[t].key

\* C4: a Set, Get, Delete, GetOrSet or SetIfAbsent on k1 changes neither the
\* presence nor the value nor the shard of any other key k2, the keys of k1's
\* own shard included.
C4_ShardIsolation ==
  [][\A t \in Threads :
       (op[t].name \in KeyOps /\ pc[t] \in {"rheld", "wheld"} /\ pc'[t] = "idle")
         => \A k2 \in Keys \ {op[t].key} : Stored(items', k2) = Stored(items, k2)]_vars

\* a Delete(k1) has returned while k2, a key of the same shard, is still stored
C4_Witness ==
  \E t \in Threads, k2 \in Keys :
    /\ Returned(t, "Delete")
    /\ k2 # op[t].key
    /\ getShard(k2) = getShard(op[t].key)
    /\ Stored(items, k2) # {}
    /\ Stored(items, op[t].key) = {}

\* C2: of the SetIfAbsent(k, v_i) calls that have returned on a key that was
\* absent and that nothing else touches, exactly one returned true, and the value
\* stored under k is the v_i of that call.
C2_SetIfAbsentOneWinner ==
  \A k \in Keys :
    LET done == {t \in Threads : Returned(t, "SetIfAbsent") /\ op[t].key = k}
        won == {t \in done : ret[t].ok}
    IN  done # {} =>
          /\ Cardinality(won) = 1
          /\ \A w \in won : Stored(items, k) = {<<getShard(k), op[w].val>>}

\* every goroutine has called SetIfAbsent on the same key, with more than one
\* value, and returned
C2_Witness ==
  /\ \A t \in Threads : Returned(t, "SetIfAbsent") /\ op[t].key = op[1].key
  /\ \E t \in Threads : op[t].val # op[1].val
  /\ \E t \in Threads : ~ret[t].ok

\* C3: of the GetOrSet(k, v_i) calls that have returned on a key that was absent,
\* exactly one returned loaded = false; every one of them returned that call's
\* value, which is the value stored under k.
C3_GetOrSetFirstWins ==
  \A k \in Keys :
    LET done == {t \in Threads : Returned(t, "GetOrSet") /\ op[t].key = k}
        first == {t \in done : ~ret[t].ok}
    IN  done # {} =>
          /\ Cardinality(first) = 1
          /\ \A w \in first :
               /\ Stored(items, k) = {<<getShard(k), op[w].val>>}
               /\ \A t \in done : ret[t].val = op[w].val

\* a later GetOrSet(k, v2) with v2 # v1 has returned (v1, true)
C3_Witness ==
  \E t \in Threads, u \in Threads :
    /\ Returned(t, "GetOrSet") /\ Returned(u, "GetOrSet")
    /\ op[t].key = op[u].key /\ op[t].val # op[u].val
    /\ ret[t] = [val |-> op[t].val, ok |-> FALSE]
    /\ ret[u] = [val |-> op[t].val, ok |-> TRUE]

\* C5: each stored key is in exactly one shard, the shard whose index is
\* fnv32(string form of the key) mod shardCount, and shardCount is the requested
\* count (32 when that is <= 0) in every state, whatever Set, Delete, GetOrSet,
\* SetIfAbsent and Clear calls have been made.
C5_KeyPlacement ==
  /\ numShards = (IF requested <= 0 THEN 32 ELSE requested)
  /\ DOMAIN items = 0..(numShards - 1)
  /\ \A k \in Keys :
       LET at == Stored(items, k)
       IN  at # {} =>
             /\ Cardinality(at) = 1
             /\ \A e \in at : e[1] = Mod32(fnv32(SprintfV(k)), numShards)

\* a default-sized map (32 shards for a requested count <= 0) holds keys in
\* different shards, the last of them inserted by GetOrSet
C5_Witness ==
  /\ requested <= 0 /\ numShards = 32
  /\ Cardinality(StoredKeys) >= 2
  /\ \E k1 \in StoredKeys, k2 \in StoredKeys :
       \E e1 \in Stored(items, k1), e2 \in Stored(items, k2) : e1[1] # e2[1]
  /\ \E t \in Threads : Returned(t, "GetOrSet") /\ ~ret[t].ok

\* the shard locks goroutine t holds or has announced itself on
HeldBy(t) == {i \in DOMAIN items : wmu[i] = t \/ t \in readers[i]}
\* a step of a call in progress
Progress(t) ==
  \/ RLock(t) \/ Lock(t) \/ LockGranted(t)
  \/ SetBody(t) \/ GetBody(t) \/ DeleteBody(t) \/ GetOrSetBody(t) \/ SetIfAbsentBody(t)
  \/ LenShard(t) \/ ClearShard(t) \/ CapShard(t) \/ KeysShard(t) \/ ValuesShard(t)
  \/ RangeCall(t) \/ RangeShardDone(t)

\* C6: a goroutine holds at most one shard lock at any time, none while it is about
\* to lock the next shard and none once its call has returned; and while any call
\* is in progress some call can take a step (no deadlock across shards).
C6_OneLockAtATime ==
  /\ \A t \in Threads :
       /\ Cardinality(HeldBy(t)) <= 1
       /\ pc[t] \in {"idle", "rlock", "wlock", "caplock"} => HeldBy(t) = {}
       /\ pc[t] \in {"rheld", "capheld", "wheld", "wwait"} => HeldBy(t) = {idx[t]}
  /\ (\E t \in Threads : pc[t] # "idle")
       => \E t \in Threads : pc[t] # "idle" /\ ENABLED Progress(t)

\* Clear, done with shard 0, has announced itself on shard 1 and waits for a
\* Range that, done with shard 0 too, holds shard 1 for reading
C6_Witness ==
  \E t \in Threads, u \in Threads :
    /\ op[t].name = "Clear" /\ pc[t] = "wwait" /\ idx[t] = 1
    /\ op[u].name = "Range" /\ pc[u] = "rheld" /\ idx[u] = 1
    /\ HeldBy(t) = {1} /\ HeldBy(u) = {1}

\* C7: with no call overlapping it, Len returns the number of distinct keys stored.
C7_LenQuiescent ==
  \A t \in Threads : Returned(t, "Len") => ret[t].val = Cardinality(StoredKeys)

\* Len returned 3 after three distinct keys were inserted into two or more shards
C7_Witness ==
  /\ Returned(1, "Len") /\ ret[1].val = 3
  /\ StoredKeys = Keys
  /\ Cardinality({getShard(k) : k \in Keys}) >= 2

\* C8: Len can return a count the whole map never had between Len's invocation and
\* its return (C8_Witness), and it does so only if the size of the map changed in
\* between: if the size was the same throughout, Len returns it.
C8_LenTornOnlyByWriter ==
  \A t \in Threads :
    (Returned(t, "Len") /\ ret[t].val \notin seen[t]) => Cardinality(seen[t]) >= 2

\* Len returned 0 for a map that held at least one entry at every instant
C8_Witness ==
  \E t \in Threads :
    /\ Returned(t, "Len") /\ ret[t].val = 0
    /\ seen[t] # {} /\ \A n \in seen[t] : n >= 1

\* what Range leaves behind when it returns: every call of f but the last returned
\* true, no key was passed twice, every pair passed is an entry of the map, every
\* entry was passed unless f returned false, and no read lock is held
RangePost(t) ==
  /\ \A j \in 1..(Len(buf[t]) - 1) : buf[t][j][3]
  /\ \A i \in 1..Len(buf[t]), j \in 1..Len(buf[t]) : i # j => buf[t][i][1] # buf[t][j][1]
  /\ \A j \in 1..Len(buf[t]) :
       \E e \in Stored(items, buf[t][j][1]) : e[2] = buf[t][j][2]
  /\ (\A j \in 1..Len(buf[t]) : buf[t][j][3])
       => {buf[t][j][1] : j \in 1..Len(buf[t])} = StoredKeys
  /\ \A i \in DOMAIN items : t \notin readers[i]

\* C9: with no concurrent mutation, Range passes each entry to f exactly once while
\* f returns true, calls f no more after its first false, holds no read lock when
\* it returns, and never changes the map.
C9_RangeShortCircuit ==
  [][\A t \in Threads :
       (op[t].name = "Range" /\ pc[t] # "idle")
         => (items' = items /\ (pc'[t] = "idle" => RangePost(t)'))]_vars

\* Range returned after f answered true, then false, with an entry left unvisited
\* in a later shard
C9_Witness ==
  /\ Returned(1, "Range")
  /\ Len(buf[1]) = 2 /\ buf[1][1][3] /\ ~buf[1][2][3]
  /\ StoredKeys = Keys
  /\ idx[1] + 1 < numShards

\* standard 32-bit FNV-1a: xor the byte in, then multiply by the prime
RECURSIVE Fnv1a(_, _, _)
Fnv1a(h, key, i) == IF i > Len(key) THEN h
                    ELSE Fnv1a(MulPrime(XorByte(h, key[i])), key, i + 1)

\* C10: fnv32 is standard FNV-1a (offset basis 2166136261; per byte, xor first and
\* multiply by 16777619 second, modulo 2^32).
C10_Fnv32IsFnv1a ==
  hPos = Len(hIn) => hAcc = Fnv1a(<<OffsetHi, OffsetLo>>, hIn, 1)

\* ------------------------------------------------------ StatesMan claims
\* goroutine t has returned from a StatesMan call of method name
SmReturned(t, name) == smPc[t] = "idle" /\ smRet[t].of = name
\* goroutine t takes the step that ends its StatesMan call of method name
SmReturns(t, name) == smPc[t] # "idle" /\ smOp[t].name = name /\ smPc'[t] = "idle"
\* the ToState of the record of subsystem n appended last, "" when there is none
LastToState(log, n) ==
  LET of == {i \in 1..Len(log) : log[i].SystemName = n}
  IN IF of = {} THEN ""
     ELSE log[CHOOSE i \in of : \A j \in of : j <= i].ToState
\* a is b with some of its records taken out
RECURSIVE IsSubSeq(_, _)
IsSubSeq(a, b) ==
  IF a = <<>> THEN TRUE
  ELSE IF b = <<>> THEN FALSE
  ELSE IF Head(a) = Head(b) THEN IsSubSeq(Tail(a), Tail(b))
  ELSE IsSubSeq(a, Tail(b))
\* a is an initial part of b
IsPrefix(a, b) == Len(a) <= Len(b) /\ a = SubSeq(b, 1, Len(a))
\* record c satisfies the filters of call o that are provided
SatisfiesName(c, o) == o.systemName = Nil \/ c.SystemName \in o.systemName
SatisfiesWindow(c, o) ==
  /\ o.since = Nil \/ \A ts \in o.since : c.Timestamp >= ts
  /\ o.until = Nil \/ \A ts \in o.until : c.Timestamp <= ts
SatisfiesStates(c, o) ==
  /\ o.fromState = Nil \/ c.FromState \in o.fromState
  /\ o.toState = Nil \/ c.ToState \in o.toState

\* C11: under any interleaving of concurrent AddStateChange calls, in every state
\* the table entry GetState reads for a subsystem is the ToState of the record of
\* that subsystem appended to the log last, and the empty token for a subsystem
\* with no record; every GetState call returns that value.
C11_CurrentIsLastLogged ==
  /\ [](\A n \in Systems : GetState(n) = LastToState(LoggedStates, n))
  /\ [][\A t \in Threads :
          SmReturns(t, "GetState")
            => smRet'[t].val = LastToState(LoggedStates, smOp[t].systemName)]_vars

\* GetState returned the ToState of the second of two records that two goroutines
\* appended for the same subsystem
C11_Witness ==
  \E t \in Threads :
    /\ SmReturned(t, "GetState")
    /\ Len(LoggedStates) = 2
    /\ LoggedStates[1].SystemName = smOp[t].systemName
    /\ LoggedStates[2].SystemName = smOp[t].systemName
    /\ LoggedStates[1].ToState # LoggedStates[2].ToState
    /\ smRet[t].val = LoggedStates[2].ToState

\* C12: for one goroutine calling AddStateChange, with a consumer on the channel,
\* GetStateChangesForSystem(s) returns exactly the records submitted for s, each
\* once and in the order they were submitted, and no record of another subsystem.
C12_ChangesForSystemInOrder ==
  SmReturned(1, "GetStateChangesForSystem")
    => smRet[1].val = SelectSeq(submitted, LAMBDA c : c.SystemName = smOp[1].systemName)

\* two different records of one subsystem were returned in their order, the record
\* of the other subsystem submitted between them was not
C12_Witness ==
  /\ SmReturned(1, "GetStateChangesForSystem")
  /\ Len(submitted) = 3
  /\ submitted[2].SystemName # smOp[1].systemName
  /\ smRet[1].val = <<submitted[1], submitted[3]>>
  /\ submitted[1] # submitted[3]

\* C13: GetFilteredStateChanges returns exactly the log records that satisfy every
\* provided filter (name, fromState, toState equal; since <= timestamp <= until;
\* a nil filter matches everything), in log order, and leaves the log and the
\* table as they are; with since > until the result is empty.
C13_FilteredExactly ==
  [][SmReturns(1, "GetFilteredStateChanges")
       => /\ smRet'[1].val =
               SelectSeq(LoggedStates,
                         LAMBDA c : /\ SatisfiesName(c, smOp[1])
                                    /\ SatisfiesStates(c, smOp[1])
                                    /\ SatisfiesWindow(c, smOp[1]))
          /\ (\E a \in smOp[1].since, b \in smOp[1].until : a > b)
               => smRet'[1].val = <<>>
          /\ UNCHANGED <<LoggedStates, CurrentStates>>]_vars

\* a call with a name and a window returned one of the two records of the log
C13_Witness ==
  /\ SmReturned(1, "GetFilteredStateChanges")
  /\ smOp[1].systemName # Nil /\ smOp[1].since # Nil /\ smOp[1].until # Nil
  /\ Len(LoggedStates) = 2
  /\ Len(smRet[1].val) = 1

\* C14: PruneStateChanges removes from the log exactly the records that satisfy
\* all provided filters (name, since, until) and keeps every other record in its
\* original order.
C14_PruneRemovesMatching ==
  [][SmReturns(1, "PruneStateChanges")
       => LoggedStates' =
            SelectSeq(LoggedStates,
                      LAMBDA c : ~(SatisfiesName(c, smOp[1]) /\ SatisfiesWindow(c, smOp[1])))]_vars

\* C15: every appended record is put on the channel once and none is dropped: the
\* log is what the consumer received, then what the channel holds, then the
\* record of the blocked call; the channel never holds more than ChanCap records;
\* a call that finds ChanCap records in the channel does not return in that
\* state, and records leave the channel only by a consumer's receive, so with no
\* consumer the call never returns.
C15_ChannelBlocksNeverDrops ==
  /\ [](/\ Len(StateChangeChannel) <= ChanCap
        /\ LoggedStates = received \o StateChangeChannel
                            \o (IF smPc[1] = "send" THEN <<smOp[1].change>> ELSE <<>>))
  /\ [][(smPc[1] = "send" /\ Len(StateChangeChannel) = ChanCap)
          => smPc'[1] = "send"]_vars
  /\ [][Len(StateChangeChannel') < Len(StateChangeChannel)
          => received' = Append(received, Head(StateChangeChannel))]_vars

\* ChanCap records are in the channel, none was received, and the next call has
\* appended its record and is blocked on the send
C15_Witness ==
  /\ Len(StateChangeChannel) = ChanCap
  /\ received = <<>>
  /\ smPc[1] = "send"
  /\ Len(LoggedStates) = ChanCap + 1

\* C16: the records received from the channel are, in the same order, the records
\* appended to the log, for every interleaving of concurrent AddStateChange calls.
C16_ChannelOrderIsLogOrder == IsPrefix(received, LoggedStates)

\* the eight recognized tokens
Recognized == {"created", "started", "stopped", "paused", "resumed", "completed",
               "failed", "terminated"}

\* C17: CheckState returns true exactly for the eight recognized tokens, whatever
\* the name, the log and the table, and changes no state; CheckStates is true
\* exactly when every entry of its map holds a recognized token.
C17_CheckStateIsMembership ==
     [][/\ SmReturns(1, "CheckState")
             => /\ smRet'[1].val = (smOp[1].state \in Recognized)
                /\ UNCHANGED <<LoggedStates, CurrentStates, StateChangeChannel>>
        /\ SmReturned(1, "CheckStates")'
             => /\ smRet'[1].val = (\A n \in DOMAIN smOp'[1].states :
                                       smOp'[1].states[n] \in Recognized)
                /\ UNCHANGED <<LoggedStates, CurrentStates, StateChangeChannel>>]_vars

\* CheckStates returned false for a map with a recognized and an unknown token,
\* called when the log was not empty
C17_Witness ==
  /\ SmReturned(1, "CheckStates")
  /\ smRet[1].val = FALSE
  /\ \E n \in DOMAIN smOp[1].states : smOp[1].states[n] = "created"
  /\ \E n \in DOMAIN smOp[1].states : smOp[1].states[n] = "bogus"
  /\ LoggedStates # <<>>

\* C18: the log changes only by one record appended at its end by AddStateChange
\* or by records taken out by PruneStateChanges; the records that remain keep
\* their fields and their order.
C18_LogAppendOrRemoveOnly ==
  [][\/ LoggedStates' = LoggedStates
     \/ /\ \E t \in Threads : smPc[t] = "held" /\ smOp[t].name = "AddStateChange"
                               /\ LoggedStates' = Append(LoggedStates, smOp[t].change)
     \/ /\ \E t \in Threads : SmReturns(t, "PruneStateChanges")
        /\ IsSubSeq(LoggedStates', LoggedStates)]_vars

\* PruneStateChanges took one of two different records out of the log
C18_Witness ==
  /\ SmReturned(1, "PruneStateChanges")
  /\ Len(submitted) = 2
  /\ submitted[1] # submitted[2]
  /\ Len(LoggedStates) = 1

\* -------------------------------------------------- CircuitBreaker claims
\* the step is a call of Execute
Executes == cbCalls' # cbCalls
\* the step is a call of Execute in which f returned an error
ExecuteFailed == Executes /\ cbOp'.ran /\ cbOp'.err \notin {NoError, "panic"}
\* the step is a call of Execute in which f returned nil
ExecuteSucceeded == Executes /\ cbOp'.ran /\ cbOp'.err = NoError

\* C19: an Execute called while the breaker is open and no more than resetTimeout
\* has passed since the call that opened it returns ErrCircuitOpen, does not call
\* f, and leaves state, failures, successes, lastError and expiry as they are.
C19_OpenRefuses ==
  [][(Executes /\ state = StateOpen /\ now - openedAt <= resetTimeout)
       => /\ cbRet' = ErrCircuitOpen
          /\ ~cbOp'.ran
          /\ UNCHANGED <<state, failures, successes, lastError, expiry>>]_vars

\* an Execute was refused after the clock had advanced, but not past the timeout
C19_Witness ==
  /\ state = StateOpen
  /\ cbRet = ErrCircuitOpen /\ ~cbOp.ran
  /\ now > openedAt
  /\ lastError # NoError

\* C20: with failureThreshold >= 1 and halfOpenSuccess >= 1: counting from a closed
\* breaker with zero failures, and a success in the closed state restarting the
\* count, an Execute opens the breaker exactly when it is the failureThreshold-th
\* failed one in a row; an Execute called on the open breaker when more than
\* resetTimeout has passed since it opened runs f in the half-open state; and an
\* Execute that ran f in the half-open state closes the breaker exactly when it
\* is the halfOpenSuccess-th successful one since the breaker became half-open.
C20_Thresholds ==
  [][(Executes /\ failureThreshold >= 1 /\ halfOpenSuccess >= 1)
       => /\ (state = StateClosed /\ streak >= 0)
               => (state' = StateOpen
                     <=> (ExecuteFailed /\ streak + 1 = failureThreshold))
          /\ (state = StateOpen /\ now - openedAt > resetTimeout)
               => (cbOp'.ran /\ cbOp'.during = StateHalfOpen)
          /\ (cbOp'.ran /\ cbOp'.during = StateHalfOpen)
               => (state' = StateClosed
                     <=> (ExecuteSucceeded /\ sinceHalfOpen' = halfOpenSuccess))]_vars

\* thresholds of 2: two failures opened the breaker, the timeout passed, and the
\* second of two successes in the half-open state closed it
C20_Witness ==
  /\ failureThreshold = 2 /\ halfOpenSuccess = 2
  /\ cbCalls = 4
  /\ cbOp.ran /\ cbOp.during = StateHalfOpen
  /\ state = StateClosed
  /\ sinceHalfOpen = 2

\* ---------------------------------------------------- EventEmitter claims
\* registration id is in the listeners of some event
EeRegistered(id) ==
  \E event \in DOMAIN emitter.listeners :
    \E n \in DOMAIN emitter.listeners[event] : emitter.listeners[event][n].id = id

\* C21: a listener registered with Once, under an explicit name or a generated ID,
\* is invoked by the first emission of its event and is no longer registered when
\* that emission has returned, so it is never invoked a second time.
C21_OnceRunsOnce ==
  \A id \in emitter.onceIds :
    /\ emitter.invoked[id] <= 1
    /\ (emitter.pc = "idle" /\ emitter.invoked[id] = 1) => ~EeRegistered(id)

\* --------------------------------------------------------- Memoize claims
\* the cache holds an unexpired entry for key
MzUnexpired(key) ==
  /\ key \in DOMAIN memo.cache
  /\ memo.ttl = 0 \/ memo.now < memo.cache[key].expiry

\* C22: f is invoked only for an argument list whose key has no unexpired cache
\* entry (none at all once cached, when ttl is 0); a Call that returns a result
\* returns the result the cache holds for its key, a Call returns an error only
\* when its key has no unexpired entry; and for every interleaving of
\* concurrent calls the invocations of f for one key have disjoint validity
\* periods, so the calls of one period all return the one result of its invocation.
C22_MemoizedOncePerPeriod ==
  /\ [][\A t \in Threads :
          /\ (memo.th[t].pc # "calling" /\ memo'.th[t].pc = "calling")
               => ~MzUnexpired(MzKey(memo.th[t].args))
          /\ (memo.th[t].pc # "idle" /\ memo'.th[t].pc = "idle" /\ ~memo'.th[t].ret.err)
               => /\ MzKey(memo.th[t].args) \in DOMAIN memo'.cache
                  /\ memo'.th[t].ret.val = memo'.cache[MzKey(memo.th[t].args)].result
                  /\ memo'.th[t].ret.via # "f" => MzUnexpired(MzKey(memo.th[t].args))
          /\ (memo.th[t].pc # "idle" /\ memo'.th[t].pc = "idle" /\ memo'.th[t].ret.err)
               => ~MzUnexpired(MzKey(memo.th[t].args))]_vars
  /\ [](\A i \in 1..Len(memo.invs) : \A j \in 1..Len(memo.invs) :
          (i < j /\ memo.invs[i].key = memo.invs[j].key)
            => (memo.ttl # 0 /\ memo.invs[j].at >= memo.invs[i].expiry))

\* two goroutines called with the same arguments at the same time: one invoked f,
\* the other waited for the lock and returned the same result without invoking f
C22_Witness ==
  \E t \in Threads, u \in Threads :
    /\ memo.th[t].pc = "idle" /\ memo.th[u].pc = "idle"
    /\ memo.th[t].ret # <<>> /\ memo.th[u].ret # <<>>
    /\ memo.th[t].ret.via = "f" /\ memo.th[u].ret.via = "lock"
    /\ ~memo.th[u].ret.err
    /\ memo.th[t].args = memo.th[u].args
    /\ memo.th[t].ret.val = memo.th[u].ret.val
    /\ Len(memo.invs) = 1

\* ----------------------------------------------------------- Retry claims
\* C23: Retry invokes f at most attempts times; f is never invoked after an
\* invocation that returned nil, nor after the select saw the context cancelled;
\* the step in which f returns nil is the step in which Retry returns nil; and
\* Retry returns nil exactly when some invocation of f returned nil.
C23_RetryStops ==
  /\ [](retry.invoked <= IF retry.attempts > 0 THEN retry.attempts ELSE 0)
  /\ [](retry.pc = "done" => (retry.ret = "nil" <=> retry.nils > 0))
  /\ [][/\ retry'.invoked > retry.invoked /\ retry'.calls = retry.calls
             => retry.nils = 0 /\ ~retry.observed /\ retry'.invoked = retry.invoked + 1
        /\ retry'.nils > retry.nils /\ retry'.calls = retry.calls
             => retry'.pc = "done" /\ retry'.ret = "nil"
        /\ retry'.observed /\ ~retry.observed
             => retry'.pc = "done" /\ retry'.ret # "nil"]_vars

\* a Retry that failed, waited, saw the context cancelled and returned with
\* attempts left
C23_Witness ==
  /\ retry.pc = "done" /\ retry.observed
  /\ retry.invoked = 2 /\ retry.attempts = 3 /\ retry.nils = 0

\* a Retry that returned nil on its second attempt of three
C23_WitnessNil ==
  /\ retry.pc = "done" /\ retry.ret = "nil"
  /\ retry.invoked = 2 /\ retry.attempts = 3

\* --------------------------------------------- ConcurrentMapReduce claims
\* the sequential fold: initialValue, then reduceFunc once per mapFunc(input[i])
RECURSIVE MrSeqFold(_, _, _)
MrSeqFold(rf, acc, input) ==
  IF input = <<>> THEN acc
  ELSE MrSeqFold(rf, reduceFunc(rf, acc, mapFunc(Head(input))), Tail(input))

\* C24: a ConcurrentMapReduce whose context was never cancelled returns the value
\* of the sequential fold from initialValue, whatever the input, the initialValue
\* and the number of workers.
C24_EqualsSequentialFold ==
  (mapred.pc = "done" /\ ~mapred.cancelled)
    => /\ mapred.ret.err = "nil"
       /\ mapred.ret.val = MrSeqFold(mapred.op, mapred.init, mapred.input)

\* with an initialValue that is an identity of reduceFunc the two values agree
C24_IdentityInitialValue ==
  (mapred.pc = "done" /\ ~mapred.cancelled /\ mapred.init = 0)
    => /\ mapred.ret.err = "nil"
       /\ mapred.ret.val = MrSeqFold(mapred.op, mapred.init, mapred.input)

\* ------------------------------------------------------ GoInterval claims
\* no Start or Stop is running and no goroutine is between a false return of the
\* call function and its end
IvSettled ==
  /\ ival.main = "idle"
  /\ \A g \in DOMAIN ival.gos : ival.gos[g].pc \in {"loop", "select", "call", "exited"}

\* C25: once the call function has returned false and until Start is called, the
\* call function is not invoked, and State() is false as soon as the Stop that the
\* false return causes is over.
C25_FalseStopsInterval ==
  ival.falsed => (~ival.again /\ (IvSettled => ~IvState))

\* ----------------------------------------------------- RateLimiter claims
\* the tokens available to a call now: the previous tokens plus elapsed * rate,
\* at most bucketSize
RlAvailable ==
  LET sum == limiter.tokens + (limiter.now - limiter.lastRefill) * limiter.rate
  IN IF sum > limiter.bucketSize THEN limiter.bucketSize ELSE sum

\* C26: the token count is always within [0, bucketSize]; AllowN(n) returns true
\* exactly when the tokens available after the refill are at least n, it then
\* leaves the available tokens minus n, and otherwise leaves the available tokens.
C26_TokenBucket ==
  /\ [](0 <= limiter.tokens /\ limiter.tokens <= limiter.bucketSize)
  /\ [][limiter'.calls = limiter.calls + 1
          => /\ limiter'.ret = (RlAvailable >= limiter'.n)
             /\ limiter'.ret => limiter'.tokens = RlAvailable - limiter'.n
             /\ ~limiter'.ret => limiter'.tokens = RlAvailable]_vars

\* the third AllowN, at time 3, asked for a whole bucket of 2 filled at 2 tokens
\* per second, was allowed and emptied the bucket
C26_Witness ==
  /\ limiter.calls = 3 /\ limiter.ret /\ limiter.n = limiter.bucketSize
  /\ limiter.tokens = 0 /\ limiter.bucketSize = 2 /\ limiter.rate = 2
  /\ limiter.lastRefill = 3

\* -------------------------------------------- ConditionalExecution claims
\* the chain pairs every condition with an action and has an Else action: it was
\* built as If/Then (ElseIf/Then)* Else
CeWellFormed ==
  /\ Len(cond.actions) = Len(cond.conditions)
  /\ cond.elseAction # CeNoAction

\* the action i was run by the last execution
CeRan(i) == \E k \in 1..Len(cond.ran) : cond.ran[k] = i

\* the number of leading true conditions
CeLeading ==
  IF \A i \in 1..Len(cond.conditions) : cond.conditions[i] THEN Len(cond.conditions)
  ELSE (CHOOSE i \in 1..Len(cond.conditions) :
          ~cond.conditions[i] /\ \A k \in 1..(i - 1) : cond.conditions[k]) - 1

\* Execute runs the action of the first true condition only, and the Else action
\* exactly when every condition is false
CeExecuteAsClaimed ==
  (cond.mode = "Execute" /\ CeWellFormed)
    => /\ CeRan(CeElseAction) <=> \A i \in 1..Len(cond.conditions) : ~cond.conditions[i]
       /\ \A i \in 1..Len(cond.conditions) :
            CeRan(i) <=> (cond.conditions[i] /\ \A k \in 1..(i - 1) : ~cond.conditions[k])

\* C27: in a chain built with If/Then/ElseIf/Else the Else action runs exactly when
\* every condition is false, in Execute and in ExecuteWithFallthrough; Execute runs
\* the action of the first true condition only; ExecuteWithFallthrough runs the
\* actions of the leading true conditions and no other.
C27_ElseIffAllFalse ==
  /\ CeExecuteAsClaimed
  /\ (cond.mode = "ExecuteWithFallthrough" /\ CeWellFormed)
       => /\ CeRan(CeElseAction) <=> \A i \in 1..Len(cond.conditions) : ~cond.conditions[i]
          /\ \A i \in 1..Len(cond.conditions) : CeRan(i) <=> i <= CeLeading

\* -------------------------------------------------- PaginationInfo claims
\* C28: PageNumbers(max) with max >= 1 returns, and returns at most max page
\* numbers, they are consecutive, all within [1, TotalPages], and CurrentPage is
\* one of them.
C28_PageNumbersWindow ==
  pager.max >= 1
    => /\ ~pager.panicked
       /\ Len(pager.pages) <= pager.max
       /\ \A i \in 1..(Len(pager.pages) - 1) : pager.pages[i + 1] = pager.pages[i] + 1
       /\ \A i \in 1..Len(pager.pages) :
            1 <= pager.pages[i] /\ pager.pages[i] <= pager.info.TotalPages
       /\ \E i \in 1..Len(pager.pages) : pager.pages[i] = pager.info.CurrentPage

\* what holds of it when there is at least one item: consecutive numbers within
\* [1, TotalPages] that include CurrentPage, at most max + 1 of them
C28_WindowUpToOneMore ==
  (pager.max >= 1 /\ pager.info.TotalItems >= 1)
    => /\ ~pager.panicked
       /\ Len(pager.pages) <= pager.max + 1
       /\ \A i \in 1..(Len(pager.pages) - 1) : pager.pages[i + 1] = pager.pages[i] + 1
       /\ \A i \in 1..Len(pager.pages) :
            1 <= pager.pages[i] /\ pager.pages[i] <= pager.info.TotalPages
       /\ \E i \in 1..Len(pager.pages) : pager.pages[i] = pager.info.CurrentPage

\* ----------------------------------------------------------- Clear claims
\* no goroutine but t has called the map
NoCallerBut(t) == \A u \in Threads \ {t} : op[u] = NoOp
\* goroutine t is in Clear and has reset shard i
HasReset(t, i) == op[t].name = "Clear" /\ pc[t] # "idle" /\ i < idx[t]

\* C29: when Clear returns, every entry of the map was written by a Set that took
\* effect on its shard after Clear reset that shard; with no other caller the map
\* is then empty, Len returns 0 and Get finds no key; and an entry written to a
\* shard that a Clear in progress has already reset stays in the map.
C29_ClearPerShard ==
  /\ [][\A t \in Threads :
          /\ Returns(t, "Clear")
               => \A k \in Keys :
                    Stored(items', k) # {}
                      => /\ pinned'[k] # <<>>
                         /\ Stored(items', k) = {<<getShard(k), pinned'[k][1]>>}
          /\ (Returns(t, "Clear") /\ NoCallerBut(t)) => Total(items') = 0
          /\ (Returns(t, "Len") /\ NoCallerBut(t) /\ Total(items) = 0)
               => ret'[t].val = 0
          /\ (Returns(t, "Get") /\ NoCallerBut(t) /\ Total(items) = 0)
               => ~ret'[t].ok
          /\ \A i \in Shards : \A k \in Keys :
               (HasReset(t, i) /\ Has(items[i], k)) => Has(items'[i], k)]_vars
  /\ [](\A t \in Threads :
          (Returned(t, "Clear") /\ NoCallerBut(t)) => StoredKeys = {})

\* Clear, not yet returned, has reset shard 0, and the Set of another goroutine,
\* the only other call, has since put its entry into shard 0
C29_Witness ==
  /\ HasReset(1, 0) /\ calls = 2
  /\ \E u \in Threads \ {1} : Returned(u, "Set") /\ Has(items[0], op[u].key)

\* goroutine 1 alone: a Set, a Clear, and a Get of the same key that found nothing
C29_WitnessAlone ==
  /\ NoCallerBut(1) /\ calls = 3 /\ Returned(1, "Get") /\ ~ret[1].ok
  /\ pinned[op[1].key] = <<>> /\ Total(items) = 0

\* ------------------------------------------------- state log liveness claims
\* the n-th record of the log has been received
ReceivedNth(n) ==
  /\ n <= Len(LoggedStates)
  /\ \E i \in 1..Len(received) : received[i] = LoggedStates[n]

\* C30: with a consumer that keeps receiving, every AddStateChange call returns
\* and every record appended to the log is received: whatever has been called and
\* appended so far, a state follows in which no call is pending and every record
\* of the log has been received; and no record is ever received twice or without
\* having been appended.
C30_EveryRecordDelivered ==
  /\ []<>(/\ \A t \in Threads : smPc[t] = "idle"
          /\ \A n \in 1..Len(LoggedStates) : ReceivedNth(n))
  /\ [](/\ \A i \in 1..Len(received) : \A j \in 1..Len(received) :
              received[i] = received[j] => i = j
        /\ \A i \in 1..Len(received) :
              \E n \in 1..Len(LoggedStates) : LoggedStates[n] = received[i])

\* more records than the channel holds have been appended and every one of them
\* has been received: some call waited for the consumer and then returned
C30_Witness ==
  /\ Len(LoggedStates) = ChanCap + 1
  /\ Len(received) = ChanCap + 1
  /\ \A t \in Threads : smPc[t] = "idle"

\* a call blocked on the full channel with nothing received yet
C30_WitnessBlocked ==
  /\ \E t \in Threads : smPc[t] = "send"
  /\ Len(StateChangeChannel) = ChanCap /\ received = <<>>

\* ---- C31: handleEvent of the flat state machine executes the first matching
\* transition, or nothing
\* transition i of the table suits the handled event h: From is the state before
\* or AnyState, Event is the event, Condition is nil or true
Suits(i, h) ==
  LET t == machine.Transitions[i]
  IN /\ (t.From = h.before \/ t.From = AnyState)
     /\ t.Event = h.event.EventID
     /\ ConditionHolds(t.Condition, h.context)
\* the calls of one kind that a handled event has made, in order
RanOf(h, kind) ==
  LET RECURSIVE Pick(_)
      Pick(s) == IF s = <<>> THEN <<>>
                 ELSE IF Head(s).kind = kind THEN <<Head(s).action>> \o Pick(Tail(s))
                 ELSE Pick(Tail(s))
  IN Pick(h.ran)
\* the events of the handled entries, in order
RECURSIVE EventsOf(_)
EventsOf(hs) == IF hs = <<>> THEN <<>> ELSE <<Head(hs).event>> \o EventsOf(Tail(hs))

\* C31: for every event taken from the EventChannel, handleEvent executes at most
\* one transition: the first in insertion order whose From is the current state or
\* AnyState, whose Event is the event and whose Condition is nil or true (the
\* hooks run once, the exit actions are those of the state before, the actions
\* those of that transition, the state after is the ID of the state its To names);
\* when no transition suits, CurrentState stays and no hook and no action runs.
\* The events are handled one at a time in the order TriggerEvent has put them on
\* the channel.  When sm.States has no state for the state before or for To (after
\* an Import), the execution of that one transition panics: after the pre-hooks
\* in the first case, after the exit and transition actions in the second, the
\* state left as it was.
C31_FirstMatchingTransition ==
  /\ \A n \in DOMAIN machine.handled :
       LET h == machine.handled[n]
           suiting == {i \in DOMAIN machine.Transitions : Suits(i, h)}
       IN IF suiting = {}
          THEN h.after = h.before /\ h.ran = <<>> /\ ~h.panicked
          ELSE LET first == CHOOSE i \in suiting : \A j \in suiting : i <= j
                   t == machine.Transitions[first]
                   from == StateAt(machine, h.before)
                   to == StateAt(machine, t.To)
                   returns == ~IsNil(from) /\ ~IsNil(to)
               IN /\ h.panicked = ~returns
                  /\ h.after = IF returns THEN to.ID ELSE h.before
                  /\ RanOf(h, "pre") = machine.PreHooks
                  /\ RanOf(h, "exit") = IF IsNil(from) THEN <<>> ELSE from.ExitActions
                  /\ RanOf(h, "action") = IF IsNil(from) THEN <<>> ELSE t.Actions
                  /\ RanOf(h, "entry") = IF returns THEN to.EntryActions ELSE <<>>
                  /\ RanOf(h, "post") = IF returns THEN machine.PostHooks ELSE <<>>
  /\ EventsOf(machine.handled) \o machine.taken \o machine.EventChannel = machine.sent
  /\ Len(machine.taken) <= 1

\* two transitions of different To suit a handled event, and the first was executed
C31_Witness ==
  \E n \in DOMAIN machine.handled :
     /\ Len(machine.Transitions) = 2
     /\ Suits(1, machine.handled[n]) /\ Suits(2, machine.handled[n])
     /\ machine.Transitions[1].To # machine.Transitions[2].To
     /\ machine.handled[n].after = machine.Transitions[1].To
     /\ ~machine.handled[n].panicked

\* an event was handled that no transition suits, the first one because its
\* Condition is false, and a second event waits on the channel
C31_WitnessNoMatch ==
  /\ Len(machine.handled) = 1 /\ Len(machine.EventChannel) = 1
  /\ Len(machine.Transitions) = 2
  /\ ~Suits(1, machine.handled[1]) /\ ~Suits(2, machine.handled[1])
  /\ machine.Transitions[1].Condition = "go"
  /\ machine.Transitions[1].From = machine.handled[1].before
  /\ machine.Transitions[1].Event = machine.handled[1].event.EventID
  /\ machine.handled[1].ran = <<>>

\* Import has replaced the states and the table, a transition added after it
\* suits the handled event, and its execution has panicked on the state before,
\* which sm.States no longer holds
C31_WitnessImported ==
  /\ machine.imported # <<>>
  /\ Len(machine.Transitions) = 2 /\ Len(machine.handled) = 1
  /\ ~Suits(1, machine.handled[1]) /\ Suits(2, machine.handled[1])
  /\ machine.CurrentState \notin DOMAIN machine.States
  /\ machine.handled[1].panicked /\ machine.panicked

\* the imported transition is the first of two that suit, and it was executed
C31_WitnessImportedFirst ==
  /\ machine.imported # <<>>
  /\ Len(machine.Transitions) = 2 /\ Len(machine.handled) = 1
  /\ machine.Transitions[1].Condition = "nil" /\ machine.Transitions[1].Actions = <<>>
  /\ machine.Transitions[2].To = "A"
  /\ Suits(1, machine.handled[1]) /\ Suits(2, machine.handled[1])
  /\ machine.handled[1].after = "B" /\ ~machine.handled[1].panicked

\* ---- C32: the order of the calls made by executeTransition
\* the calls of the actions of one list, all seeing the same CurrentState
Tagged(kind, actions, current) ==
  [i \in 1..Len(actions) |-> [kind |-> kind, action |-> actions[i], seen |-> current]]
\* the transition a handled entry has executed, <<>> when it has executed none: the
\* first suiting one of the table for an event, the timed transition for a timer;
\* its source is the state before for an event, the From of a timed transition
Executed(h) ==
  IF h.src = "timer"
  THEN <<[From |-> h.event.From, To |-> h.event.To, Actions |-> h.event.Actions]>>
  ELSE LET suiting == {i \in DOMAIN machine.Transitions : Suits(i, h)}
       IN IF suiting = {} THEN <<>>
          ELSE LET t == machine.Transitions[CHOOSE i \in suiting :
                                                \A j \in suiting : i <= j]
               IN <<[From |-> h.before, To |-> t.To, Actions |-> t.Actions]>>

\* C32: every executed transition calls, in this order, all pre-hooks, the exit
\* actions of the source state, the transition's own actions, then sets
\* CurrentState to the target state, then calls the entry actions of the target
\* state and all post-hooks; the exit and transition actions (and the pre-hooks)
\* see the old CurrentState, the entry actions and the post-hooks the new one.
\* The target state is the state that sm.States holds for To, the new
\* CurrentState its ID.  An execution that panics on a state sm.States does not
\* hold (after an Import) has made the calls of this sequence up to that point
\* and has not changed CurrentState.
C32_TransitionOrder ==
  \A n \in DOMAIN machine.handled :
     LET h == machine.handled[n]
     IN Executed(h) # <<>> =>
          LET t == Executed(h)[1]
              from == StateAt(machine, t.From)
              to == StateAt(machine, t.To)
              pre == Tagged("pre", machine.PreHooks, h.before)
          IN IF IsNil(from) THEN h.panicked /\ h.ran = pre /\ h.after = h.before
             ELSE LET leave == pre \o Tagged("exit", from.ExitActions, h.before)
                                   \o Tagged("action", t.Actions, h.before)
                  IN IF IsNil(to) THEN h.panicked /\ h.ran = leave /\ h.after = h.before
                     ELSE /\ ~h.panicked
                          /\ h.ran = leave \o Tagged("entry", to.EntryActions, to.ID)
                                           \o Tagged("post", machine.PostHooks, to.ID)
                          /\ h.after = to.ID

\* an event has executed a transition that changes the state, with MaxHooks hooks
\* of each kind, two exit actions, two actions and two entry actions
C32_Witness ==
  \E n \in DOMAIN machine.handled :
     LET h == machine.handled[n]
     IN /\ h.src = "event" /\ h.before = "A" /\ h.after = "B" /\ ~h.panicked
        /\ Len(h.ran) = 2 * MaxHooks + 6
        /\ Len(machine.PreHooks) = MaxHooks /\ Len(machine.PostHooks) = MaxHooks

\* a timer callback has executed its timed transition after an event had already
\* left the transition's From state
C32_WitnessTimer ==
  \E n \in DOMAIN machine.handled :
     LET h == machine.handled[n]
     IN h.src = "timer" /\ h.before # h.event.From /\ h.ran # <<>> /\ ~h.panicked

\* after an Import the target of an executed transition is a state whose ID is
\* not its key in sm.States: CurrentState has become that ID
C32_WitnessImported ==
  \E n \in DOMAIN machine.handled :
     LET h == machine.handled[n]
     IN /\ machine.imported # <<>>
        /\ h.src = "event" /\ ~h.panicked /\ Executed(h) # <<>>
        /\ h.after # Executed(h)[1].To /\ h.ran # <<>>

\* a timer callback has panicked after the pre-hooks: Import has removed the
\* timed transition's From state
C32_WitnessPanic ==
  \E n \in DOMAIN machine.handled :
     LET h == machine.handled[n]
     IN h.src = "timer" /\ h.panicked /\ h.ran # <<>>

\* ---- C33: the state machine with regions after a handled event
\* transition i of the table suits the n-th handled event of the machine with
\* regions: it leaves the state the machine was in, on that event, Condition nil or true
RegionSuits(i, n) ==
  LET t == regional.Transitions[i]
      h == regional.handled[n]
  IN /\ h.before # <<>> /\ t.From = h.before[1] /\ t.Event = h.event
     /\ (t.Condition = "nil" \/ t.Condition = "true")

\* C33: after Run has handled a triggered event that a transition leaving the
\* current state suits (Condition nil or true), GetCurrentState() returns the To
\* of the first such transition, so that the next event is matched against the
\* transitions leaving To.
C33_CurrentStateFollows ==
  /\ regional.got # <<>> /\ regional.got[1].after = Len(regional.handled)
  /\ \E i \in DOMAIN regional.Transitions : RegionSuits(i, Len(regional.handled))
  => LET suiting == {i \in DOMAIN regional.Transitions :
                       RegionSuits(i, Len(regional.handled))}
         first == CHOOSE i \in suiting : \A j \in suiting : i <= j
     IN regional.got[1].state = regional.Transitions[first].To

\* what the code does instead: handling an event never writes sm.Regions, so
\* GetCurrentState() stays what SetInitialState or Import has made it; the To
\* state is only written to the copy of the Region that the loop of handleEvent
\* works on
C33_StateNeverMoves ==
  [][Len(regional.handled') > Len(regional.handled)
       => /\ regional.Regions' = regional.Regions
          /\ (~regional.panicked'
               /\ \E i \in DOMAIN regional.Transitions :
                     RegionSuits(i, Len(regional.handled))')
             => LET suiting == {i \in DOMAIN regional.Transitions :
                                  RegionSuits(i, Len(regional.handled))'}
                    first == CHOOSE i \in suiting : \A j \in suiting : i <= j
                IN regional.copies'[1].CurrentState =
                     StateAt(regional, regional.Transitions[first].To).ID]_vars

\* an event with a suiting transition to another state was handled, and
\* GetCurrentState() was called after it
C33_WitnessHandled ==
  /\ regional.got # <<>> /\ regional.got[1].after = 1 /\ Len(regional.handled) = 1
  /\ Len(regional.Transitions) = 1 /\ RegionSuits(1, 1)
  /\ regional.Transitions[1].To # regional.handled[1].before[1]

\* ---- C34: an AddStateChange call waiting on the full channel
\* t is in AddStateChange at the send, and the channel is full
Blocked(t) == smPc[t] = "send" /\ Len(StateChangeChannel) = ChanCap
\* the log holds the record t was called with
Logged(t) == \E i \in DOMAIN LoggedStates : LoggedStates[i] = smOp[t].change
\* the table shows the record t was called with
Tabled(t) == GetState(smOp[t].change.SystemName) = smOp[t].change.ToState

\* C34: an AddStateChange call that waits on the full channel does not hold
\* SafetyLock; when it reached the send its record was the last of the log and
\* the entry of the table, and while it waits the record leaves the log only by
\* another goroutine's PruneStateChanges and the entry changes only by another
\* goroutine's AddStateChange; GetState, GetStateChangesForSystem,
\* GetFilteredStateChanges, PruneStateChanges, CheckState and the append of
\* AddStateChange called by another goroutine meanwhile all get the lock and
\* finish their critical section.
C34_BlockedSendHoldsNoLock ==
  /\ [](\A t \in Threads : Blocked(t) => SafetyLock # t)
  /\ [][\A t \in Threads :
          /\ smPc[t] # "send" /\ smPc'[t] = "send"
             => /\ LoggedStates' # <<>>
                /\ LoggedStates'[Len(LoggedStates')] = smOp[t].change
                /\ Tabled(t)'
                /\ SafetyLock' # t
          /\ Blocked(t) /\ Blocked(t)' /\ Logged(t) /\ ~Logged(t)'
             => \E u \in Threads \ {t} :
                   smPc[u] = "held" /\ smOp[u].name = "PruneStateChanges"
          /\ Blocked(t) /\ Blocked(t)' /\ Tabled(t) /\ ~Tabled(t)'
             => \E u \in Threads \ {t} :
                   smPc[u] = "held" /\ smOp[u].name = "AddStateChange"]_vars
  /\ (Blocked(1) /\ smPc[2] \in {"lock", "held"})
       ~> (Blocked(1) /\ smPc[2] \in {"idle", "send"})

\* goroutine 1 waits on the full channel, and goroutine 2 has since then appended
\* the record of its own AddStateChange, on which it now waits as well
C34_Witness ==
  /\ Blocked(1) /\ Blocked(2)
  /\ Logged(1) /\ Logged(2) /\ Tabled(2) /\ ~Tabled(1)
  /\ SafetyLock = 0

\* goroutine 1 waits on the full channel, and goroutine 2 has returned from a
\* PruneStateChanges that took the waiting call's record out of the log
C34_WitnessPruned ==
  /\ Blocked(1) /\ ~Logged(1)
  /\ smPc[2] = "idle" /\ smRet[2].of = "PruneStateChanges"

\* goroutine 1 waits on the full channel while goroutine 2 has called GetState
\* and has got the state of the waiting call's record
C34_WitnessRead ==
  /\ Blocked(1)
  /\ smPc[2] = "idle" /\ smRet[2].of = "GetState" /\ smRet[2].val = "created"

====
